---------------------------- MODULE Spec2Model ----------------------------
(***************************************************************************)
(* A model of two subsystems of aistore:                                   *)
(*                                                                         *)
(*   - the stream collector of package transport (transport/collect.go):   *)
(*     the map of registered streams, the min-heap keyed by ticks, the     *)
(*     control channel and the periodic tick (collector.do);               *)
(*   - the global rebalance orchestrator of package reb (reb/global.go,    *)
(*     reb/globsync.go): RunGlobalReb and its stages, the joggers, the     *)
(*     pending-ack queues, the status polls and the quiesce wait.          *)
(*                                                                         *)
(* The two parts have their own variables and their own specifications     *)
(* (SpecGC, SpecReb, ...); an action of one part leaves the other part's   *)
(* variables unchanged.                                                    *)
(***************************************************************************)
EXTENDS Integers, Sequences, FiniteSets, TLC

\* ------------------------------------------------------------------------
\* Stream collector: bounds and constants
\* ------------------------------------------------------------------------

\* the Stream objects ever created, and the logical stream ID (s.lid) of each:
\* objects 1 and 3 carry the same lid (a re-registration of the same stream ID)
StreamObjs == {1, 2, 3}

lidOf(o) == IF o = 2 THEN "b" ELSE "a"

Lids == {lidOf(o) : o \in StreamObjs}

\* s.time.idleOut / tickUnit of the streams (the same idle timeout for all)
IdleTicks == 1

\* frames accepted by Send at most, over all streams (also bounds len(s.workCh))
MaxSends == 1

\* Size = tickMarker: the frame the collector enqueues on deactivation
tickMarker == 0

NoStream == 0

\* ------------------------------------------------------------------------
\* State
\* ------------------------------------------------------------------------

VARIABLES
    \* collector (transport/collect.go)
    streams,      \* gc.streams: lid -> Stream object (NoStream: no entry)
    heap,         \* gc.heap: sequence of Stream objects (position p is heap[p-1] in Go)
    ctrlCh,       \* gc.ctrlCh: sequence of [s, add]
    gcState,      \* "running" | "stopped" (stopCh closed, run returned) | "panic"
    \* per Stream object
    created,      \* the Stream objects constructed so far
    idleTicks,    \* int(s.time.idleOut/tickUnit)
    ticks,        \* s.time.ticks
    index,        \* s.time.index (0-based, as in Go)
    sessST,       \* s.sessST: "active" | "inactive"
    posted,       \* s.time.posted
    workCh,       \* s.workCh: sequence of frames (tickMarker or the frame's number)
    closed,       \* s.workCh is closed
    term,         \* s.term: [terminated, err]
    stopped,      \* s.Stop() was called
    cbs           \* per frame accepted by Send (numbered 1, 2, ...): [s, errs], the stream
                  \* and the errors its completion callback was called with, in order

VARIABLES
    \* rebalance manager of the modelled target (reb.Manager, reb/global.go)
    tsmapVer,     \* t.GetSowner().Get().Version: the target's current Smap version
    stage,        \* reb.stages.stage
    semaCh,       \* reb.semaCh: the tokens in the channel (capacity 1)
    globRebID,    \* reb.globRebID
    rsmapVer,     \* reb.smap: version of the Smap of the run (0: nil)
    marker,       \* the persistent in-progress marker exists
    streamsOpen,  \* reb.streams are open (beginStreams .. endStreams)
    gfnActive,    \* the global GFN is activated
    laterx,       \* reb.laterx
    xreb,         \* reb.xreb: [id, ver, aborted, finished, by] (id 0: no xaction yet);
                  \* by: what aborted it first ("none": not aborted)
    filterGFN,    \* reb.filterGFN: the objects flagged as pulled by GFN
    lomAcks,      \* reb.lomAcks(): the objects with a pending-ack entry
    sendQ,        \* frames accepted by reb.streams.Send, not yet completed (reb.inQueue)
    lomLocks,     \* per object: the shared (read) locks held on its LOM
    acks,         \* ACKs in flight from the peer: [obj, id]
    store,        \* the objects present on the modelled target
    peerStore,    \* the objects present on the other target
    call,         \* the RunGlobalReb calls: their arguments, position and locals
    \* history of the current run (reset by globalRebInit)
    store0,       \* the objects on the modelled target when the cluster started
    sentOK,       \* objects the jogger handed to streams.Send with addAck, Send returning nil
    acked,        \* objects whose ACK was received in this run
    timedOut,     \* objects whose pending-ack entry was dropped by retransmit
    \* one status poll on its own (checkGlobStatus as a function of its inputs)
    pollIn,
    pollOut,
    \* one wait for push notifications on its own (waitForPushReqs in a cluster of
    \* push.n targets): [n, stg, ecwt, cnt, abrt, ret, val]
    push,
    \* the EC waiter registry (reb.ec.waiter): [cts, waitFor, allocs]
    \*   cts: the waiter records, [uid, sliceID, h, recv]: the object, the slot,
    \*        the handle (the number of the allocation) and the arrival flag
    \*   waitFor: the outstanding counter; allocs: waiter records allocated so far
    wt,
    \* one pull of a peer's EC slice list on its own (waitECData against the
    \* peer's GlobECDataStatus): [stage, local, nd, siStage, ecwt, x, ret, ok]
    \*   stage, local: the peer's stage and the entry of its own slices
    \*   nd, siStage: what the puller has of the peer: its slices and its stage
    \*   ecwt, x, ret, ok: the puller's curwt and xaction, waitECData has
    \*   returned, and what
    pull,
    \* one decision of the EC code between memory and disk on its own (useDisk):
    \* [pressure, objSize, done, disk]
    mem,
    \* the objects whose bucket is EC-enabled (lom.Bck().Props.EC.Enabled); the
    \* bucket properties do not change in the behaviours modelled
    ecBck,
    \* one mountpath jogger of the global rebalance taken on its own
    jg,
    \* reb.ec holds the data that the EC rebalance of a run has collected (the
    \* slices found by runEC and what it has built from them)
    ecColl,
    \* the create-bucket transactions of a proxy taken on their own: [bmd, lock,
    \* panic, k]: the BMD (per bucket, the call that added it), the holder of
    \* the BMD lock, a failed unlock, and the locals of the calls
    txn

gcVars == <<streams, heap, ctrlCh, gcState, created, idleTicks, ticks, index,
            sessST, posted, workCh, closed, term, stopped, cbs>>

rebVars == <<tsmapVer, stage, semaCh, globRebID, rsmapVer, marker, streamsOpen,
             gfnActive, laterx, xreb, filterGFN, lomAcks, sendQ, lomLocks, acks,
             store, peerStore, call, store0, sentOK, acked, timedOut>>

pollVars == <<pollIn, pollOut, push, wt, pull, mem, ecBck, jg, ecColl, txn>>

\* what the rebalance leaves alone but for the data of its EC part
unitVars == <<pollIn, pollOut, push, wt, pull, mem, ecBck, jg, txn>>

vars == <<gcVars, rebVars, pollVars>>

\* ------------------------------------------------------------------------
\* container/heap over the collector (collect.go: Len, Less, Swap, Push, Pop)
\* A heap state is a record g with the fields heap, index, ticks, panic (and the
\* other fields of a collector state, which the heap leaves alone); positions are
\* 0-based as in Go: position i is g.heap[i + 1].
\* ------------------------------------------------------------------------

HAt(g, i) == g.heap[i + 1]

HLen(g) == Len(g.heap)

Less(g, i, j) == g.ticks[HAt(g, i)] < g.ticks[HAt(g, j)]

SwapNoIndex(g, i, j) ==
    [g EXCEPT !.heap = [g.heap EXCEPT ![i + 1] = g.heap[j + 1],
                                      ![j + 1] = g.heap[i + 1]]]

Swap(g, i, j) ==
    LET h2 == [g.heap EXCEPT ![i + 1] = g.heap[j + 1], ![j + 1] = g.heap[i + 1]]
    IN  [g EXCEPT !.heap = h2,
                  !.index = [[g.index EXCEPT ![h2[i + 1]] = i] EXCEPT ![h2[j + 1]] = j]]

\* container/heap up(h, j); Go's (j-1)/2 truncates toward zero, so the parent of 0 is 0
RECURSIVE HeapUp(_, _)
HeapUp(g, j) ==
    LET i == IF j = 0 THEN 0 ELSE (j - 1) \div 2
    IN  IF i = j \/ ~Less(g, j, i) THEN g
        ELSE HeapUp(Swap(g, i, j), i)

\* container/heap down(h, i0, n): the heap after sifting down, and whether the element moved
RECURSIVE HeapDownFrom(_, _, _)
HeapDownFrom(g, i, n) ==
    LET j1 == 2 * i + 1
        j  == IF j1 + 1 < n /\ Less(g, j1 + 1, j1) THEN j1 + 1 ELSE j1
    IN  IF j1 >= n THEN [g |-> g, at |-> i]
        ELSE IF ~Less(g, j, i) THEN [g |-> g, at |-> i]
        ELSE HeapDownFrom(Swap(g, i, j), j, n)

HeapDown(g, i0, n) ==
    LET r == HeapDownFrom(g, i0, n)
    IN  [g |-> r.g, moved |-> r.at > i0]

\* heap.Fix(h, i); an index outside the heap array panics in Go
HeapFix(g, i) ==
    IF i < 0 \/ i >= HLen(g) THEN [g EXCEPT !.panic = TRUE]
    ELSE LET d == HeapDown(g, i, HLen(g))
         IN  IF d.moved THEN d.g ELSE HeapUp(d.g, i)

\* collector.Push: index := len, append, heap.Fix
Push(g, s) ==
    LET l  == HLen(g)
        g1 == [g EXCEPT !.index = [g.index EXCEPT ![s] = l],
                        !.heap = Append(g.heap, s)]
    IN  HeapFix(g1, l)

\* heap.Push(h, x): h.Push(x); up(h, h.Len()-1)
HeapPush(g, s) ==
    LET g1 == Push(g, s)
    IN  IF g1.panic THEN g1 ELSE HeapUp(g1, HLen(g1) - 1)

\* collector.Pop: drops the last element
Pop(g) == [g EXCEPT !.heap = SubSeq(g.heap, 1, Len(g.heap) - 1)]

\* heap.Remove(h, i)
HeapRemove(g, i) ==
    LET n == HLen(g) - 1
    IN  IF i < 0 \/ i > n THEN [g EXCEPT !.panic = TRUE]
        ELSE IF n # i
             THEN LET g1 == Swap(g, i, n)
                      d  == HeapDown(g1, i, n)
                  IN  Pop(IF d.moved THEN d.g ELSE HeapUp(d.g, i))
             ELSE Pop(g)

\* collector.update(s, ticks): the assertion ticks >= 0, then heap.Fix
update(g, s, t) ==
    LET g1 == [g EXCEPT !.ticks = [g.ticks EXCEPT ![s] = t]]
    IN  IF t < 0 THEN [g1 EXCEPT !.panic = TRUE]
        ELSE HeapFix(g1, g1.index[s])


\* ------------------------------------------------------------------------
\* Streams (transport/send.go is not part of the sources: modelled from the
\* specification, sections 3 and 4.2)
\* ------------------------------------------------------------------------

\* Stream.objDone: the per-frame completion callback is invoked with err
\* (the tickMarker frame carries no callback)
objDone(cb, frame, err) ==
    IF frame = tickMarker THEN cb
    ELSE [cb EXCEPT ![frame].errs = Append(@, err)]

\* the collector's drain with the callbacks left out (a mutant of drain)
drainDropped(cb, ch, err) == cb

RECURSIVE drain(_, _, _)
drain(cb, ch, err) ==
    IF ch = <<>> THEN cb
    ELSE drain(objDone(cb, Head(ch), err), Tail(ch), err)

\* NewStream: a new Stream object with its idle timeout, registered with the collector
NewStream(o, it) ==
    /\ gcState = "running"
    /\ o \notin created
    /\ \A p \in StreamObjs : p < o => p \in created
    /\ \A p \in created : lidOf(p) = lidOf(o) => term[p].terminated
    /\ created' = created \cup {o}
    /\ idleTicks' = [idleTicks EXCEPT ![o] = it]
    /\ ticks' = [ticks EXCEPT ![o] = it]
    /\ ctrlCh' = Append(ctrlCh, [s |-> o, add |-> TRUE])
    /\ UNCHANGED <<streams, heap, gcState, index, sessST, posted, workCh, closed,
                   term, stopped, cbs>>
    /\ UNCHANGED <<rebVars, pollVars>>

\* Stream.Send: fails fast on a terminated stream; otherwise the frame is posted,
\* an inactive stream is reactivated and the frame is enqueued on the work queue
Send(o) ==
    /\ gcState = "running"
    /\ o \in created
    /\ ~term[o].terminated
    /\ Len(cbs) < MaxSends
    /\ posted' = [posted EXCEPT ![o] = @ + 1]
    /\ sessST' = [sessST EXCEPT ![o] = "active"]
    /\ workCh' = [workCh EXCEPT ![o] = Append(@, Len(cbs) + 1)]
    /\ cbs' = Append(cbs, [s |-> o, errs |-> <<>>])
    /\ UNCHANGED <<streams, heap, ctrlCh, gcState, created, idleTicks, ticks, index,
                   closed, term, stopped>>
    /\ UNCHANGED <<rebVars, pollVars>>

\* the stream's send loop takes the next frame off the work queue: a tickMarker
\* flushes and goes to the inactive wire state, another frame is transmitted and
\* completes with a nil error
Transmit(o) ==
    /\ gcState # "panic"
    /\ o \in created
    /\ ~term[o].terminated
    /\ workCh[o] # <<>>
    /\ workCh' = [workCh EXCEPT ![o] = Tail(@)]
    /\ cbs' = objDone(cbs, Head(workCh[o]), "nil")
    /\ UNCHANGED <<streams, heap, ctrlCh, gcState, created, idleTicks, ticks, index,
                   sessST, posted, closed, term, stopped>>
    /\ UNCHANGED <<rebVars, pollVars>>

\* the stream terminates (Fin, Stop, or a broken session with error err) and
\* sends the collector its remove control event
Terminate(o, err) ==
    /\ gcState # "panic"
    /\ o \in created
    /\ ~term[o].terminated
    /\ term' = [term EXCEPT ![o] = [terminated |-> TRUE, err |-> err]]
    /\ ctrlCh' = Append(ctrlCh, [s |-> o, add |-> FALSE])
    /\ UNCHANGED <<streams, heap, gcState, created, idleTicks, ticks, index, sessST,
                   posted, workCh, closed, stopped, cbs>>
    /\ UNCHANGED <<rebVars, pollVars>>

\* ------------------------------------------------------------------------
\* The collector (transport/collect.go)
\* ------------------------------------------------------------------------

\* the collector's state as one record, for the loops of do()
GcRec ==
    [streams |-> streams, heap |-> heap, index |-> index, ticks |-> ticks,
     sessST |-> sessST, posted |-> posted, workCh |-> workCh, closed |-> closed,
     term |-> term, cbs |-> cbs, panic |-> FALSE]

\* all orders in which a range over a map with the keys S may visit them
RECURSIVE Orders(_)
Orders(S) ==
    IF S = {} THEN {<<>>}
    ELSE UNION {{<<x>> \o r : r \in Orders(S \ {x})} : x \in S}

Registered(d) == {l \in Lids : d.streams[l] # NoStream}

\* do(), first loop, one stream, with a nil termination error left as it is (a
\* mutant of doFirst)
doFirstNilErr(d, l) ==
    LET s == d.streams[l]
    IN  IF d.term[s].terminated
        THEN LET t  == d.ticks[s] - 1
                 d1 == [d EXCEPT !.ticks = [d.ticks EXCEPT ![s] = t]]
                 e  == d.term[s].err
             IN  IF t <= 0
                 THEN [d1 EXCEPT !.streams = [d.streams EXCEPT ![l] = NoStream],
                                 !.closed = [d.closed EXCEPT ![s] = TRUE],
                                 !.cbs = drain(d.cbs, d.workCh[s], e),
                                 !.workCh = [d.workCh EXCEPT ![s] = <<>>]]
                 ELSE d1
        ELSE IF d.sessST[s] = "active"
             THEN update(d, s, d.ticks[s] - 1)
             ELSE d

\* do(), first loop, one stream: a terminated stream loses a tick and, at <= 0,
\* is deleted from the map, its queue closed and drained; an active one is updated
doFirst(d, l) ==
    LET s == d.streams[l]
    IN  IF d.term[s].terminated
        THEN LET t  == d.ticks[s] - 1
                 d1 == [d EXCEPT !.ticks = [d.ticks EXCEPT ![s] = t]]
                 e  == IF d.term[s].err = "nil" THEN "unknown" ELSE d.term[s].err
             IN  IF t <= 0
                 THEN [d1 EXCEPT !.streams = [d.streams EXCEPT ![l] = NoStream],
                                 !.closed = [d.closed EXCEPT ![s] = TRUE],
                                 !.term = [d.term EXCEPT ![s].err = e],
                                 !.cbs = drain(d.cbs, d.workCh[s], e),
                                 !.workCh = [d.workCh EXCEPT ![s] = <<>>]]
                 ELSE d1
        ELSE IF d.sessST[s] = "active"
             THEN update(d, s, d.ticks[s] - 1)
             ELSE d

\* do(), second loop, one stream, with the post counter ignored (a mutant of doSecond)
doSecondNoPosted(d, l) ==
    LET s  == d.streams[l]
        d1 == update(d, s, idleTicks[s])
    IN  IF d.ticks[s] > 0 THEN d
        ELSE IF d1.panic THEN d1
        ELSE IF d1.workCh[s] = <<>> /\ d1.sessST[s] = "active"
             THEN [d1 EXCEPT !.sessST = [d1.sessST EXCEPT ![s] = "inactive"],
                             !.workCh = [d1.workCh EXCEPT ![s] = <<tickMarker>>]]
             ELSE d1

\* do(), second loop, one stream, with the ticks left as they are (a mutant of
\* doSecond)
doSecondKeepsTicks(d, l) ==
    LET s  == d.streams[l]
        d1 == update(d, s, d.ticks[s])
        d2 == [d1 EXCEPT !.posted = [d1.posted EXCEPT ![s] = 0]]
    IN  IF d.ticks[s] > 0 THEN d
        ELSE IF d1.panic THEN d1
        ELSE IF d1.posted[s] > 0 THEN d2
        ELSE IF d2.workCh[s] = <<>> /\ d2.sessST[s] = "active"
             THEN [d2 EXCEPT !.sessST = [d2.sessST EXCEPT ![s] = "inactive"],
                             !.workCh = [d2.workCh EXCEPT ![s] = <<tickMarker>>]]
             ELSE d2

\* do(), second loop, one stream: at ticks <= 0 the ticks are reset; the stream
\* stays active if frames were posted, and is deactivated if its queue is empty
doSecond(d, l) ==
    LET s  == d.streams[l]
        d1 == update(d, s, idleTicks[s])
        d2 == [d1 EXCEPT !.posted = [d1.posted EXCEPT ![s] = 0]]
    IN  IF d.ticks[s] > 0 THEN d
        ELSE IF d1.panic THEN d1
        ELSE IF d1.posted[s] > 0 THEN d2
        ELSE IF d2.workCh[s] = <<>> /\ d2.sessST[s] = "active"
             THEN [d2 EXCEPT !.sessST = [d2.sessST EXCEPT ![s] = "inactive"],
                             !.workCh = [d2.workCh EXCEPT ![s] = <<tickMarker>>]]
             ELSE d2

RECURSIVE doLoop1(_, _)
doLoop1(d, ord) ==
    IF ord = <<>> \/ d.panic THEN d
    ELSE doLoop1(doFirst(d, Head(ord)), Tail(ord))

RECURSIVE doLoop2(_, _)
doLoop2(d, ord) ==
    IF ord = <<>> \/ d.panic THEN d
    ELSE doLoop2(doSecond(d, Head(ord)), Tail(ord))

\* the collector's state after a step that ends in d
GcApply(d) ==
    /\ streams' = d.streams
    /\ heap' = d.heap
    /\ index' = d.index
    /\ ticks' = d.ticks
    /\ sessST' = d.sessST
    /\ posted' = d.posted
    /\ workCh' = d.workCh
    /\ closed' = d.closed
    /\ term' = d.term
    /\ cbs' = d.cbs
    /\ gcState' = IF d.panic THEN "panic" ELSE gcState

\* case <-gc.ticker.C: gc.do()
Tick ==
    /\ gcState = "running"
    /\ \E o1 \in Orders(Registered(GcRec)) :
          LET d1 == doLoop1(GcRec, o1)
          IN  \E o2 \in Orders(Registered(d1)) :
                 GcApply(doLoop2(d1, o2))
    /\ UNCHANGED <<ctrlCh, created, idleTicks, stopped>>
    /\ UNCHANGED <<rebVars, pollVars>>

\* case ctrl := <-gc.ctrlCh, add: the stream is entered in the map and pushed on the heap
ctrlAdd(d, s) ==
    IF d.streams[lidOf(s)] # NoStream THEN [d EXCEPT !.panic = TRUE]
    ELSE HeapPush([d EXCEPT !.streams = [d.streams EXCEPT ![lidOf(s)] = s]], s)

\* case ctrl := <-gc.ctrlCh, remove: a registered stream leaves the heap, ticks := 1
ctrlRemove(d, s) ==
    IF d.streams[lidOf(s)] = NoStream THEN d
    ELSE LET d1 == HeapRemove(d, d.index[s])
         IN  IF d1.panic THEN d1
             ELSE [d1 EXCEPT !.ticks = [d1.ticks EXCEPT ![s] = 1]]

Ctrl ==
    /\ gcState = "running"
    /\ ctrlCh # <<>>
    /\ LET c == Head(ctrlCh)
       IN  IF c.add THEN GcApply(ctrlAdd(GcRec, c.s))
           ELSE GcApply(ctrlRemove(GcRec, c.s))
    /\ ctrlCh' = Tail(ctrlCh)
    /\ UNCHANGED <<created, idleTicks, stopped>>
    /\ UNCHANGED <<rebVars, pollVars>>

\* the stop case with the map left as it is (a mutant of GcStop)
GcStopKeepsMap ==
    /\ gcState = "running"
    /\ stopped' = [o \in StreamObjs |->
                      stopped[o] \/ \E l \in Lids : streams[l] = o]
    /\ gcState' = "stopped"
    /\ UNCHANGED <<streams, heap, ctrlCh, created, idleTicks, ticks, index, sessST,
                   posted, workCh, closed, term, cbs>>
    /\ UNCHANGED <<rebVars, pollVars>>

\* case <-gc.stopCh.Listen(): every registered stream is stopped, the map is dropped
GcStop ==
    /\ gcState = "running"
    /\ stopped' = [o \in StreamObjs |->
                      stopped[o] \/ \E l \in Lids : streams[l] = o]
    /\ streams' = [l \in Lids |-> NoStream]
    /\ gcState' = "stopped"
    /\ UNCHANGED <<heap, ctrlCh, created, idleTicks, ticks, index, sessST, posted,
                   workCh, closed, term, cbs>>
    /\ UNCHANGED <<rebVars, pollVars>>

GcInit ==
    /\ streams = [l \in Lids |-> NoStream]
    /\ heap = <<>>
    /\ ctrlCh = <<>>
    /\ gcState = "running"
    /\ created = {}
    /\ idleTicks = [o \in StreamObjs |-> 0]
    /\ ticks = [o \in StreamObjs |-> 0]
    /\ index = [o \in StreamObjs |-> 0]
    /\ sessST = [o \in StreamObjs |-> "inactive"]
    /\ posted = [o \in StreamObjs |-> 0]
    /\ workCh = [o \in StreamObjs |-> <<>>]
    /\ closed = [o \in StreamObjs |-> FALSE]
    /\ term = [o \in StreamObjs |-> [terminated |-> FALSE, err |-> "nil"]]
    /\ stopped = [o \in StreamObjs |-> FALSE]
    /\ cbs = <<>>

GcNext ==
    \/ \E o \in StreamObjs, it \in {IdleTicks} : NewStream(o, it)
    \/ \E o \in StreamObjs : Send(o)
    \/ \E o \in StreamObjs : Transmit(o)
    \/ \E o \in StreamObjs, err \in {"nil", "io"} : Terminate(o, err)
    \/ Tick
    \/ Ctrl
    \/ GcStop

\* ------------------------------------------------------------------------
\* Claims about the stream collector (checked under SpecGC)
\* ------------------------------------------------------------------------

InQueue(k) == \E i \in 1..Len(workCh[cbs[k].s]) : workCh[cbs[k].s][i] = k

C5_IndexIsPosition ==
    \A i \in 1..Len(heap) : index[heap[i]] = i - 1

\* stream 1 was removed from position 0 of a two-element heap: Swap moved
\* stream 2 to position 0 and stream 1 to position 1, Pop dropped it
C5_Witness ==
    /\ heap = <<2>>
    /\ index[2] = 0
    /\ index[1] = 1
    /\ term[1].terminated

\* C6: the heap array is ordered by ticks: heap[i+1].ticks >= heap[i].ticks.
C6_HeapSorted ==
    \A i \in 1..(Len(heap) - 1) : ticks[heap[i + 1]] >= ticks[heap[i]]

\* C7: on a tick at which an active stream's ticks reach <= 0 the ticks are reset
\* to idleOut/tickUnit, and the stream becomes inactive, with a tickMarker on its
\* work queue, iff its post counter is zero and its work queue is empty; otherwise
\* it stays active and its queue is left alone.
C7_IdleTransition ==
    [][Tick =>
        \A l \in Lids :
            LET s == streams[l]
            IN  (/\ s # NoStream
                 /\ ~term[s].terminated
                 /\ sessST[s] = "active"
                 /\ ticks[s] - 1 <= 0)
                => /\ ticks'[s] = idleTicks[s]
                   /\ IF posted[s] = 0 /\ workCh[s] = <<>>
                      THEN sessST'[s] = "inactive" /\ workCh'[s] = <<tickMarker>>
                      ELSE sessST'[s] = "active" /\ workCh'[s] = workCh[s]]_vars

\* a stream that was active has been deactivated by a tick
C7_Witness ==
    \E o \in created :
        /\ sessST[o] = "inactive"
        /\ workCh[o] = <<tickMarker>>
        /\ \E k \in 1..Len(cbs) : cbs[k].s = o /\ cbs[k].errs = <<"nil">>


\* ------------------------------------------------------------------------
\* Global rebalance (reb/global.go, reb/globsync.go): bounds and constants
\*
\* One target (Self) is modelled in full; the other target (Peer) is its
\* environment: it answers status polls, receives the frames sent to it and
\* acknowledges them, and sends the objects it holds for Self.
\* ------------------------------------------------------------------------

Self == "t1"

Peer == "t2"

Tmap == {Self, Peer}

Objs == {"o1", "o2"}

\* cluster.HrwTarget(lom.Uname(), smap) under the Smap of the run
HrwTarget(o) == IF o = "o1" THEN Self ELSE Peer

\* lom.Bck().Props.EC.Enabled: no bucket is erasure coded (md.ecUsed is false)
ECEnabled(o) == o \in ecBck

\* the RunGlobalReb calls made on the target
Calls == {"r1", "r2"}

\* the rebalance IDs the calls are made with are 1..MaxRebID
MaxRebID == 2

\* the Smap versions the target goes through are 1..MaxSmapVer
MaxSmapVer == 2

\* capacity of the streams' work queue (Send blocks when it is full)
MaxInQueue == 2

\* Rebalance.DestRetryTime in units of the poll interval (the maxwt of the wait loops)
maxwt == 2

\* Rebalance.Quiesce in units of Timeout.CplaneOperation: int(maxWait/sleep)
quiesceTicks == 1

\* defaultWaitTime of waitForPushReqs in units of its sleep
maxPushWait == 1

\* the batches of the EC global repair, int(len(reb.ec.broken)/ecRebBatchSize)
ecBatches == 1

\* the stages, in the order of their declaration
rebStageInactive == 0

rebStageInit == 1

rebStageTraverse == 2

rebStageECNamespace == 3

rebStageECDetect == 4

rebStageECGlobRepair == 5

rebStageECBatch == 6

rebStageECCleanup == 7

rebStageWaitAck == 8

rebStageFin == 9

rebStageDone == 10

\* ------------------------------------------------------------------------
\* Status polls (reb/globsync.go)
\* ------------------------------------------------------------------------

\* reb.Status as far as the polls read it; Tmap: the targets the node waits ACKs from
Status(tver, rver, gid, st, ab, q, tm) ==
    [SmapVersion |-> tver, RebVersion |-> rver, GlobRebID |-> gid, Stage |-> st,
     Aborted |-> ab, Quiescent |-> q, Tmap |-> tm]

\* &Status{}
ZeroStatus == Status(0, 0, 0, rebStageInactive, FALSE, FALSE, {})

\* the answer to one health call with a retry: err1, err2 tell that the first call
\* and the retry failed, bad that the body does not unmarshal, st is the status sent
Reply(e1, e2, bad, st) == [err1 |-> e1, err2 |-> e2, bad |-> bad, st |-> st]

\* checkGlobStatus giving up after the first failed health call (a mutant of
\* checkGlobStatus)
checkGlobStatusNoRetry(r, ver, gid, desiredStage, abrt) ==
    LET st == r.st
        ret(s, n, ok, a) == [status |-> s, nil |-> n, ok |-> ok, abort |-> a,
                             calls |-> 1]
    IN  IF r.err1 /\ abrt THEN ret(ZeroStatus, TRUE, FALSE, "none")
        ELSE IF r.err1 THEN ret(ZeroStatus, TRUE, FALSE, "global")
        ELSE IF r.bad THEN ret(ZeroStatus, FALSE, FALSE, "global")
        ELSE IF st.SmapVersion > ver \/ st.RebVersion > ver
             THEN ret(st, FALSE, FALSE, "global")
        ELSE IF st.GlobRebID > gid THEN ret(st, FALSE, FALSE, "global")
        ELSE IF st.SmapVersion < ver \/ st.RebVersion < ver
             THEN ret(st, FALSE, FALSE, "none")
        ELSE IF st.GlobRebID < gid THEN ret(st, FALSE, FALSE, "none")
        ELSE IF st.Aborted THEN ret(st, FALSE, FALSE, "local")
        ELSE ret(st, FALSE, st.Stage >= desiredStage, "none")

\* checkGlobStatus calling abortGlobal for a peer that has aborted the same
\* rebalance (a mutant of checkGlobStatus)
checkGlobStatusBcast(r, ver, gid, desiredStage, abrt) ==
    LET st == r.st
        ret(s, n, ok, a) == [status |-> s, nil |-> n, ok |-> ok, abort |-> a,
                             calls |-> IF r.err1 /\ ~abrt THEN 2 ELSE 1]
    IN  IF r.err1 /\ abrt THEN ret(ZeroStatus, TRUE, FALSE, "none")
        ELSE IF r.err1 /\ r.err2 THEN ret(ZeroStatus, TRUE, FALSE, "global")
        ELSE IF r.bad THEN ret(ZeroStatus, FALSE, FALSE, "global")
        ELSE IF st.SmapVersion > ver \/ st.RebVersion > ver
             THEN ret(st, FALSE, FALSE, "global")
        ELSE IF st.GlobRebID > gid THEN ret(st, FALSE, FALSE, "global")
        ELSE IF st.SmapVersion < ver \/ st.RebVersion < ver
             THEN ret(st, FALSE, FALSE, "none")
        ELSE IF st.GlobRebID < gid THEN ret(st, FALSE, FALSE, "none")
        ELSE IF st.Aborted THEN ret(st, FALSE, FALSE, "global")
        ELSE ret(st, FALSE, st.Stage >= desiredStage, "none")

\* checkGlobStatus with the check of the older Smap moved before the check of the
\* newer rebalance ID (a mutant of checkGlobStatus)
checkGlobStatusOlderFirst(r, ver, gid, desiredStage, abrt) ==
    LET st == r.st
        ret(s, n, ok, a) == [status |-> s, nil |-> n, ok |-> ok, abort |-> a,
                             calls |-> IF r.err1 /\ ~abrt THEN 2 ELSE 1]
    IN  IF r.err1 /\ abrt THEN ret(ZeroStatus, TRUE, FALSE, "none")
        ELSE IF r.err1 /\ r.err2 THEN ret(ZeroStatus, TRUE, FALSE, "global")
        ELSE IF r.bad THEN ret(ZeroStatus, FALSE, FALSE, "global")
        ELSE IF st.SmapVersion > ver \/ st.RebVersion > ver
             THEN ret(st, FALSE, FALSE, "global")
        ELSE IF st.SmapVersion < ver \/ st.RebVersion < ver
             THEN ret(st, FALSE, FALSE, "none")
        ELSE IF st.GlobRebID > gid THEN ret(st, FALSE, FALSE, "global")
        ELSE IF st.GlobRebID < gid THEN ret(st, FALSE, FALSE, "none")
        ELSE IF st.Aborted THEN ret(st, FALSE, FALSE, "local")
        ELSE ret(st, FALSE, st.Stage >= desiredStage, "none")

\* checkGlobStatus that does not wait for a target that runs an older
\* rebalance (a mutant of checkGlobStatus)
checkGlobStatusAnyID(r, ver, gid, desiredStage, abrt) ==
    LET st == r.st
        ret(s, n, ok, a) == [status |-> s, nil |-> n, ok |-> ok, abort |-> a,
                             calls |-> IF r.err1 /\ ~abrt THEN 2 ELSE 1]
    IN  IF r.err1 /\ abrt THEN ret(ZeroStatus, TRUE, FALSE, "none")
        ELSE IF r.err1 /\ r.err2 THEN ret(ZeroStatus, TRUE, FALSE, "global")
        ELSE IF r.bad THEN ret(ZeroStatus, FALSE, FALSE, "global")
        ELSE IF st.SmapVersion > ver \/ st.RebVersion > ver
             THEN ret(st, FALSE, FALSE, "global")
        ELSE IF st.GlobRebID > gid THEN ret(st, FALSE, FALSE, "global")
        ELSE IF st.SmapVersion < ver \/ st.RebVersion < ver
             THEN ret(st, FALSE, FALSE, "none")
        ELSE IF st.GlobRebID = gid /\ st.Aborted THEN ret(st, FALSE, FALSE, "local")
        ELSE ret(st, FALSE, st.Stage >= desiredStage, "none")

\* checkGlobStatus(tsi, ver, desiredStage, md) as a function of the peer's answer r,
\* of reb.globRebID (gid) and of what xreb.AbortedAfter(sleepRetry) returns (abrt).
\* The result: the status returned (nil: no status), ok, and the abort made:
\* "global" (abortGlobal), "local" (xreb.Abort) or "none"
checkGlobStatus(r, ver, gid, desiredStage, abrt) ==
    LET st == r.st
        ret(s, n, ok, a) == [status |-> s, nil |-> n, ok |-> ok, abort |-> a,
                             calls |-> IF r.err1 /\ ~abrt THEN 2 ELSE 1]
    IN  IF r.err1 /\ abrt THEN ret(ZeroStatus, TRUE, FALSE, "none")
        ELSE IF r.err1 /\ r.err2 THEN ret(ZeroStatus, TRUE, FALSE, "global")
        ELSE IF r.bad THEN ret(ZeroStatus, FALSE, FALSE, "global")
        ELSE IF st.SmapVersion > ver \/ st.RebVersion > ver
             THEN ret(st, FALSE, FALSE, "global")
        ELSE IF st.GlobRebID > gid THEN ret(st, FALSE, FALSE, "global")
        ELSE IF st.SmapVersion < ver \/ st.RebVersion < ver
             THEN ret(st, FALSE, FALSE, "none")
        ELSE IF st.GlobRebID < gid THEN ret(st, FALSE, FALSE, "none")
        ELSE IF st.Aborted THEN ret(st, FALSE, FALSE, "local")
        ELSE ret(st, FALSE, st.Stage >= desiredStage, "none")

\* abortGlobal ("global": the broadcasting abort) and xreb.Abort ("local"): the
\* one-way abort flag of the xaction, and the path that set it first
Abort(x, a) ==
    IF a = "none" THEN x
    ELSE [x EXCEPT !.aborted = TRUE, !.by = IF x.aborted THEN @ ELSE a]

\* the abort that a poll with the result res makes in a run of Smap version ver;
\* an abort for a newer Smap on the peer is recorded as such ("smap")
AbortOn(x, res, ver) ==
    LET newer == res.status.SmapVersion > ver \/ res.status.RebVersion > ver
    IN  [Abort(x, res.abort) EXCEPT
            !.by = IF x.aborted \/ res.abort = "none" THEN @
                   ELSE IF res.abort = "global" /\ ~res.nil /\ newer THEN "smap"
                   ELSE res.abort]

\* the inputs of one poll taken on its own: the run has Smap version 2 and
\* rebalance ID 2, the peer may be behind or ahead in each of them
PollInputs ==
    [r : {Reply(e1, e2, bad, Status(tver, rver, gid, st, ab, TRUE, {})) :
              e1 \in BOOLEAN, e2 \in BOOLEAN, bad \in BOOLEAN,
              tver \in {1, 2, 3}, rver \in {1, 2, 3}, gid \in {1, 2, 3},
              st \in {rebStageTraverse, rebStageWaitAck, rebStageFin},
              ab \in BOOLEAN},
     ver : {2}, gid : {2},
     desiredStage : {rebStageTraverse, rebStageFin},
     abrt : BOOLEAN]

NoPoll == [done |-> FALSE]

\* ------------------------------------------------------------------------
\* EC: memory or disk (ec/ec.go)
\* ------------------------------------------------------------------------

\* cmn.MiB
MiB == 1048576

\* objSizeHighMem = 50 * cmn.MiB
objSizeHighMem == 50 * MiB

\* mm.MemPressure(): the levels of memory pressure, from the lowest to out of
\* memory
MemPressureLow == 0

MemPressureModerate == 1

MemPressureHigh == 2

MemPressureExtreme == 3

OOM == 4

MemPressures == {MemPressureLow, MemPressureModerate, MemPressureHigh,
                 MemPressureExtreme, OOM}

\* useDisk with the size limit applied at every level from high on (a mutant of
\* useDisk)
useDiskSized(pressure, objSize) ==
    pressure >= MemPressureHigh /\ objSize > objSizeHighMem

\* useDisk(objSize) under the memory pressure given
useDisk(pressure, objSize) ==
    CASE pressure \in {OOM, MemPressureExtreme} -> TRUE
      [] pressure = MemPressureHigh -> objSize > objSizeHighMem
      [] OTHER -> FALSE

\* the object sizes the decision is taken for: around nothing, half the limit,
\* the limit, and more
ObjSizes ==
    {k * (objSizeHighMem \div 2) + d : k \in 0..3, d \in {-1, 0, 1}} \ {-1}

\* no decision is taken on its own
NoMem == [done |-> TRUE]

\* ------------------------------------------------------------------------
\* The EC waiter registry (ecWaiter): one waiter record per expected slice of
\* an object that is being rebuilt
\* ------------------------------------------------------------------------

\* the objects of the list the batches are taken from
NumObjs == 4

\* the waiter records the registry may allocate in one behaviour
MaxAllocs == 3

\* the number of objects of one batch
ecRebBatchSize == 2

\* rebObjs: the list of the objects to rebuild, each with its own uid
rebObjs == [i \in 1..NumObjs |-> i]

\* the slots of an object: two of its slices
SliceIDs == {0, 1}

\* newWaiter()
newWaiter == [cts |-> {}, waitFor |-> 0, allocs |-> 0]

\* wt.objs: the objects that have a record
wtObjs(w) == {c.uid : c \in w.cts}

\* lookupCreate that allocates a waiter at every call (a mutant of lookupCreate)
lookupCreateAlways(w, uid, sliceID) ==
    LET h == w.allocs + 1
    IN  [wt |-> [cts |-> {c \in w.cts : ~(c.uid = uid /\ c.sliceID = sliceID)}
                            \cup {[uid |-> uid, sliceID |-> sliceID, h |-> h,
                                   recv |-> FALSE]},
                 waitFor |-> w.waitFor + 1, allocs |-> h],
         ct |-> h]

\* lookupCreate(uid, sliceID, waitType): the waiter of the slot, created when
\* there is none; the result is the registry and the handle returned
lookupCreate(w, uid, sliceID) ==
    IF \E c \in w.cts : c.uid = uid /\ c.sliceID = sliceID
    THEN [wt |-> w,
          ct |-> (CHOOSE c \in w.cts : c.uid = uid /\ c.sliceID = sliceID).h]
    ELSE LET h == w.allocs + 1
         IN  [wt |-> [cts |-> w.cts \cup {[uid |-> uid, sliceID |-> sliceID, h |-> h,
                                          recv |-> FALSE]},
                      waitFor |-> w.waitFor + 1, allocs |-> h],
              ct |-> h]

\* a slice arrives: its slot is flagged, one waiter less is outstanding
sliceArrived(w, uid, sliceID) ==
    [w EXCEPT !.cts = {IF c.uid = uid /\ c.sliceID = sliceID
                       THEN [c EXCEPT !.recv = TRUE] ELSE c : c \in @},
              !.waitFor = @ - 1]

\* the positions (from 0) of the batch that starts at batchID in a list of len objects
BatchPositions(len, batchID) ==
    {i \in 0..(len - 1) : batchID <= i /\ i < batchID + ecRebBatchSize}

\* cleanupBatch that drops the first batchID objects (a mutant of cleanupBatch)
cleanupBatchFirst(w, broken, batchID) ==
    [w EXCEPT !.cts = {c \in @ : ~\E i \in 0..(Len(broken) - 1) :
                                      i < batchID /\ broken[i + 1] = c.uid}]

\* cleanupBatch that takes the last batch for a batch past the end of the list
\* (a mutant of cleanupBatch)
cleanupBatchClamp(w, broken, batchID) ==
    LET b == IF batchID >= Len(broken) THEN Len(broken) - ecRebBatchSize ELSE batchID
    IN  [w EXCEPT !.cts = {c \in @ : ~\E i \in BatchPositions(Len(broken), b) :
                                          broken[i + 1] = c.uid}]

\* cleanupBatch that drops every object from batchID on (a mutant of cleanupBatch)
cleanupBatchToEnd(w, broken, batchID) ==
    [w EXCEPT !.cts = {c \in @ : ~\E i \in 0..(Len(broken) - 1) :
                                      batchID <= i /\ broken[i + 1] = c.uid}]

\* cleanupBatch(broken, batchID): the records of the objects of the batch are dropped
cleanupBatch(w, broken, batchID) ==
    [w EXCEPT !.cts = {c \in @ : ~\E i \in BatchPositions(Len(broken), batchID) :
                                      broken[i + 1] = c.uid}]

\* cleanup(): every record is dropped, the counter is reset
cleanup(w) == [w EXCEPT !.cts = {}, !.waitFor = 0]

LookupCreate(uid, sliceID) ==
    /\ wt.allocs < MaxAllocs \/ (\E c \in wt.cts : c.uid = uid /\ c.sliceID = sliceID)
    /\ wt' = lookupCreate(wt, uid, sliceID).wt
    /\ UNCHANGED <<pollIn, pollOut, push, pull, mem, ecBck, jg, ecColl, txn, gcVars, rebVars>>

SliceArrived(uid, sliceID) ==
    /\ \E c \in wt.cts : c.uid = uid /\ c.sliceID = sliceID /\ ~c.recv
    /\ wt' = sliceArrived(wt, uid, sliceID)
    /\ UNCHANGED <<pollIn, pollOut, push, pull, mem, ecBck, jg, ecColl, txn, gcVars, rebVars>>

CleanupBatch(batchID) ==
    /\ wt' = cleanupBatch(wt, rebObjs, batchID)
    /\ UNCHANGED <<pollIn, pollOut, push, pull, mem, ecBck, jg, ecColl, txn, gcVars, rebVars>>

Cleanup ==
    /\ wt' = cleanup(wt)
    /\ UNCHANGED <<pollIn, pollOut, push, pull, mem, ecBck, jg, ecColl, txn, gcVars, rebVars>>

WaiterNext ==
    \/ \E uid \in 1..NumObjs, sliceID \in SliceIDs : LookupCreate(uid, sliceID)
    \/ \E uid \in 1..NumObjs, sliceID \in SliceIDs : SliceArrived(uid, sliceID)
    \/ \E batchID \in 0..(NumObjs + 1) : CleanupBatch(batchID)
    \/ Cleanup

\* no wait for push notifications is taken on its own
NoPush == [ret |-> TRUE]

\* no pull of a slice list is taken on its own
NoPull == [ret |-> TRUE]

\* no jogger is taken on its own
NoJog == [pc |-> "done"]

\* no create-bucket transaction is taken on its own
NoTxn == [panic |-> FALSE]

PollInit ==
    /\ pollIn \in PollInputs
    /\ pollOut = NoPoll
    /\ push = NoPush
    /\ wt = newWaiter
    /\ pull = NoPull
    /\ mem = NoMem
    /\ ecBck = {}
    /\ jg = NoJog
    /\ ecColl = FALSE
    /\ txn = NoTxn

\* no poll is taken on its own
PollIdle ==
    /\ pollIn = NoPoll
    /\ pollOut = NoPoll
    /\ push = NoPush
    /\ wt = newWaiter
    /\ pull = NoPull
    /\ mem = NoMem
    /\ ecBck = {}
    /\ jg = NoJog
    /\ ecColl = FALSE
    /\ txn = NoTxn

\* the poll is made: what it returns, and whether the local run is aborted when it returns
Poll ==
    /\ pollIn # NoPoll
    /\ pollOut = NoPoll
    /\ LET res == checkGlobStatus(pollIn.r, pollIn.ver, pollIn.gid,
                                  pollIn.desiredStage, pollIn.abrt)
       IN  pollOut' = [done |-> TRUE, res |-> res,
                       aborted |-> pollIn.abrt \/ res.abort # "none"]
    /\ UNCHANGED <<pollIn, push, wt, pull, mem, ecBck, jg, ecColl, txn, gcVars, rebVars>>

\* one decision between memory and disk is to be taken
MemInit ==
    /\ pollIn = NoPoll
    /\ pollOut = NoPoll
    /\ push = NoPush
    /\ wt = newWaiter
    /\ pull = NoPull
    /\ mem \in [pressure : MemPressures, objSize : ObjSizes, done : {FALSE},
                 disk : {FALSE}]
    /\ ecBck = {}
    /\ jg = NoJog
    /\ ecColl = FALSE
    /\ txn = NoTxn

\* the decision is taken
UseDisk ==
    /\ ~mem.done
    /\ mem' = [mem EXCEPT !.done = TRUE, !.disk = useDisk(mem.pressure, mem.objSize)]
    /\ UNCHANGED <<pollIn, pollOut, push, wt, pull, ecBck, jg, ecColl, txn, gcVars, rebVars>>


\* ------------------------------------------------------------------------
\* RunGlobalReb (reb/global.go): a call c goes through
\*   precheck -> serialize -> init -> sync -> rxready -> jog -> wack -> wsync
\*   -> retx -> (wack ... ) -> fin -> finwait -> quiesce -> fini -> returned
\* ------------------------------------------------------------------------

mgrVars == <<stage, semaCh, globRebID, rsmapVer, marker, streamsOpen, gfnActive>>

dataVars == <<filterGFN, lomAcks, sendQ, lomLocks, acks, store, peerStore>>

histVars == <<store0, sentOK, acked, timedOut>>

\* the locals of a call that is not running
IdleCall ==
    [id |-> 0, ver |-> 0, pc |-> "idle", visited |-> {}, halted |-> FALSE,
     curwt |-> 0, errCnt |-> 0, cnt |-> 0, quiescent |-> 0, ab |-> FALSE,
     ecUsed |-> FALSE, singleBck |-> FALSE, rebErr |-> FALSE,
     ecpc |-> "none", ecwt |-> 0, batch |-> 0]

\* the call has returned: its locals are gone
Returned(k) == [IdleCall EXCEPT !.id = k.id, !.ver = k.ver, !.pc = "returned"]

\* the answers of the peer to the polls of a run with Smap version ver and ID gid
Replies(ver, gid) ==
    {Reply(FALSE, FALSE, FALSE, Status(ver, ver, gid, st, FALSE, q, tm)) :
         st \in {rebStageInactive, rebStageTraverse, rebStageFin},
         q \in {TRUE}, tm \in {{}}}
    \cup {Reply(FALSE, FALSE, FALSE, Status(ver, ver, gid, rebStageWaitAck, FALSE, TRUE, tm)) :
              tm \in {{}, {Self}}}
    \cup {Reply(FALSE, FALSE, FALSE, Status(ver, ver, gid, rebStageFin, FALSE, FALSE, {})),
          Reply(FALSE, FALSE, FALSE, Status(ver + 1, ver, gid, rebStageTraverse, FALSE, TRUE, {})),
          Reply(FALSE, FALSE, FALSE, Status(ver, ver - 1, gid, rebStageTraverse, FALSE, TRUE, {})),
          Reply(FALSE, FALSE, FALSE, Status(ver, ver, gid + 1, rebStageTraverse, FALSE, TRUE, {})),
          Reply(FALSE, FALSE, FALSE, Status(ver, ver, gid, rebStageFin, TRUE, TRUE, {})),
          Reply(FALSE, FALSE, FALSE,
                Status(ver - 1, ver - 1, gid - 1, rebStageDone, FALSE, TRUE, {})),
          Reply(FALSE, FALSE, FALSE, Status(ver, ver, gid, rebStageECDetect, FALSE, TRUE, {})),
          Reply(TRUE, TRUE, FALSE, ZeroStatus)}

\* the calls are made in the order r1, r2
Earlier(c) == IF c = "r2" THEN {"r1"} ELSE {}

\* RunGlobalReb(smap, globRebID, buckets...) is called with the target's current
\* Smap; ecUsed: the bucket, or some bucket, is erasure coded; singleBck: the
\* call names one bucket
RunGlobalRebOn(c, id, ecUsed, singleBck) ==
    /\ call[c].pc = "idle"
    /\ \A d \in Earlier(c) : call[d].pc # "idle"
    /\ call' = [call EXCEPT ![c] = [@ EXCEPT !.id = id, !.ver = tsmapVer,
                                             !.ecUsed = ecUsed,
                                             !.singleBck = singleBck,
                                             !.pc = "precheck"]]
    /\ UNCHANGED <<tsmapVer, mgrVars, laterx, xreb, dataVars, histVars, gcVars, pollVars>>

\* RunGlobalReb in a cluster without erasure-coded buckets
RunGlobalReb(c, id) == RunGlobalRebOn(c, id, FALSE, FALSE)

\* pingTarget: up to three health calls; after a failed one a newer Smap ends the wait
pingTarget(errs, newer) ==
    \/ ~errs[1]
    \/ ~newer /\ (~errs[2] \/ ~errs[3])

\* globalRebPrecheck going on to globalRebInit without serialize (a mutant of Precheck)
PrecheckNoSerialize(c, errs) ==
    /\ call[c].pc = "precheck"
    /\ call' = [call EXCEPT ![c] = [@ EXCEPT !.pc = "init"]]
    /\ ecColl' = IF call[c].ecUsed THEN FALSE ELSE ecColl
    /\ UNCHANGED <<tsmapVer, mgrVars, laterx, xreb, dataVars, histVars, gcVars, unitVars>>

\* globalRebPrecheck up to serialize: with md.ecUsed the EC data of an earlier
\* run is cleaned up (cleanupEC); then the broadcast of pings
Precheck(c, errs) ==
    /\ call[c].pc = "precheck"
    /\ LET k == call[c]
       IN  call' = [call EXCEPT ![c] =
                       IF pingTarget(errs, tsmapVer > k.ver)
                       THEN [k EXCEPT !.pc = "serialize"]
                       ELSE Returned(k)]
    /\ ecColl' = IF call[c].ecUsed THEN FALSE ELSE ecColl
    /\ UNCHANGED <<tsmapVer, mgrVars, laterx, xreb, dataVars, histVars, gcVars, unitVars>>

\* reb.serialize, one round of its loop (not part of the sources: modelled from the
\* specification, section 4.3 step 2): the semaphore is taken if it is free; the
\* call gives up on a newer Smap or when a run with an equal or greater ID was
\* started, handing the semaphore back; it goes on if it holds the semaphore and
\* sleeps otherwise
Serialize(c) ==
    /\ call[c].pc = "serialize"
    /\ LET k      == call[c]
           canRun == semaCh > 0
       IN  IF tsmapVer > k.ver \/ globRebID >= k.id
           THEN /\ call' = [call EXCEPT ![c] = Returned(k)]
                /\ UNCHANGED semaCh
           ELSE /\ canRun
                /\ semaCh' = semaCh - 1
                /\ call' = [call EXCEPT ![c] = [k EXCEPT !.pc = "init"]]
    /\ UNCHANGED <<tsmapVer, stage, globRebID, rsmapVer, marker, streamsOpen, gfnActive,
                   laterx, xreb, dataVars, histVars, gcVars, pollVars>>

\* globalRebInit without the persistent marker (a mutant of GlobalRebInit)
GlobalRebInitNoMarker(c) ==
    /\ call[c].pc = "init"
    /\ stage' = rebStageInit
    /\ xreb' = [id |-> call[c].id, ver |-> call[c].ver, aborted |-> FALSE,
                finished |-> FALSE, by |-> "none"]
    /\ streamsOpen' = TRUE
    /\ laterx' = FALSE
    /\ lomAcks' = {}
    /\ marker' = marker
    /\ rsmapVer' = call[c].ver
    /\ globRebID' = call[c].id
    /\ gfnActive' = TRUE
    /\ sentOK' = {}
    /\ acked' = {}
    /\ timedOut' = {}
    /\ call' = [call EXCEPT ![c] = [@ EXCEPT !.pc = "sync"]]
    /\ UNCHANGED <<tsmapVer, semaCh, filterGFN, sendQ, lomLocks, acks, store, peerStore,
                   store0, gcVars, pollVars>>

\* globalRebInit, and the activation of the GFN that follows it in RunGlobalReb
GlobalRebInit(c) ==
    /\ call[c].pc = "init"
    /\ stage' = rebStageInit
    /\ xreb' = [id |-> call[c].id, ver |-> call[c].ver, aborted |-> FALSE,
                finished |-> FALSE, by |-> "none"]
    /\ streamsOpen' = TRUE
    /\ laterx' = FALSE
    /\ lomAcks' = {}
    /\ marker' = TRUE
    /\ rsmapVer' = call[c].ver
    /\ globRebID' = call[c].id
    /\ gfnActive' = TRUE
    /\ sentOK' = {}
    /\ acked' = {}
    /\ timedOut' = {}
    /\ call' = [call EXCEPT ![c] = [@ EXCEPT !.pc = "sync"]]
    /\ UNCHANGED <<tsmapVer, semaCh, filterGFN, sendQ, lomLocks, acks, store, peerStore,
                   store0, gcVars, pollVars>>

\* globalRebSyncAndRun: the stage becomes traverse; without EC the regular
\* rebalance starts; a single erasure-coded bucket runs the EC rebalance only;
\* otherwise both run in parallel (the regular one with md.ecUsed = false) and
\* globalRebSyncAndRun waits for the two
GlobalRebSyncAndRun(c) ==
    /\ call[c].pc = "sync"
    /\ stage' = rebStageTraverse
    /\ call' = [call EXCEPT ![c] =
                   IF ~call[c].ecUsed
                   THEN [@ EXCEPT !.pc = "rxready", !.curwt = 0]
                   ELSE IF call[c].singleBck
                   THEN [@ EXCEPT !.pc = "join", !.ecpc = "namespace", !.ecwt = 0]
                   ELSE [@ EXCEPT !.pc = "rxready", !.curwt = 0, !.ecUsed = FALSE,
                                  !.ecpc = "namespace", !.ecwt = 0]]
    /\ UNCHANGED <<tsmapVer, semaCh, globRebID, rsmapVer, marker, streamsOpen, gfnActive,
                   laterx, xreb, dataVars, histVars, gcVars, pollVars>>

\* globalRebRun, bcast(rxReady): one round of rxReady's loop for the peer; pushed
\* tells that the peer's push notification of the traverse stage has arrived.
\* When rxReady returns (its result is ignored) an aborted run gives up, another
\* one starts the joggers
RxReady(c, pushed, r) ==
    /\ call[c].pc = "rxready"
    /\ LET k    == call[c]
           res  == checkGlobStatus(r, k.ver, globRebID, rebStageTraverse, xreb.aborted)
           poll == k.curwt < maxwt /\ ~pushed
           x1   == IF poll THEN AbortOn(xreb, res, k.ver) ELSE xreb
           ret  == k.curwt >= maxwt \/ pushed \/ res.ok \/ x1.aborted
       IN  /\ xreb' = x1
           /\ call' = [call EXCEPT ![c] =
                          IF ~ret THEN [k EXCEPT !.curwt = @ + 1]
                          ELSE IF x1.aborted /\ k.ecpc = "none"
                          THEN [k EXCEPT !.pc = "fin", !.curwt = 0]
                          ELSE IF x1.aborted
                          THEN [k EXCEPT !.pc = "join", !.curwt = 0, !.rebErr = TRUE]
                          ELSE [k EXCEPT !.pc = "jog", !.curwt = 0]]
    /\ UNCHANGED <<tsmapVer, mgrVars, laterx, dataVars, histVars, gcVars, pollVars>>


\* ------------------------------------------------------------------------
\* The jogger (globalJogger.jog, walk, send)
\* ------------------------------------------------------------------------

\* the manager's state that send works on
SendRec ==
    [lomAcks |-> lomAcks, sendQ |-> sendQ, laterx |-> laterx, sentOK |-> sentOK,
     locks |-> lomLocks, err |-> FALSE]

\* lom.Lock(false) and lom.Unlock(false) on the locks l
Lock(l, o) == [l EXCEPT ![o] = @ + 1]

Unlock(l, o) == [l EXCEPT ![o] = @ - 1]

\* send's deferred function with the unlock left out (a mutant of sendDefer)
sendDeferNoUnlock(d, o) == d

\* send's deferred function: the lock is released if send returns an error
sendDefer(d, o) ==
    IF d.err THEN [d EXCEPT !.locks = Unlock(@, o)] ELSE d

\* send that keeps the pending-ack entry when streams.Send fails (a mutant of send)
sendKeepsEntry(d, o, addAck, out) ==
    LET d0 == [d EXCEPT !.locks = Lock(@, o)]
        d1 == IF addAck THEN [d0 EXCEPT !.lomAcks = @ \cup {o}] ELSE d0
    IN  sendDefer(
          IF out = "sendLoadErr" THEN [d0 EXCEPT !.err = TRUE]
          ELSE IF out = "copy" THEN [d0 EXCEPT !.locks = Unlock(@, o)]
          ELSE IF out \in {"cksumErr", "openErr"} THEN [d0 EXCEPT !.err = TRUE]
          ELSE IF out = "sendErr" THEN [d1 EXCEPT !.err = TRUE]
          ELSE [d1 EXCEPT !.sendQ = Append(@, [obj |-> o, id |-> globRebID]),
                          !.laterx = TRUE,
                          !.sentOK = IF addAck THEN @ \cup {o} ELSE @],
          o)

\* globalJogger.send(lom, tsi, addAck); out is what the file system and the stream
\* answer: the LOM fails to load, is a replica copy, its checksum or its file
\* handle fail, streams.Send fails, or all is well ("ok"). The LOM is locked on
\* entry; the copy unlocks it itself, an error unlocks it in the deferred
\* function, and an enqueued frame leaves the unlock to objSentCallback
send(d, o, addAck, out) ==
    LET d0 == [d EXCEPT !.locks = Lock(@, o)]
        d1 == IF addAck THEN [d0 EXCEPT !.lomAcks = @ \cup {o}] ELSE d0
    IN  sendDefer(
          IF out = "sendLoadErr" THEN [d0 EXCEPT !.err = TRUE]
          ELSE IF out = "copy" THEN [d0 EXCEPT !.locks = Unlock(@, o)]
          ELSE IF out \in {"cksumErr", "openErr"} THEN [d0 EXCEPT !.err = TRUE]
          ELSE IF out = "sendErr"
               THEN [(IF addAck THEN [d1 EXCEPT !.lomAcks = @ \ {o}] ELSE d1)
                        EXCEPT !.err = TRUE]
          ELSE [d1 EXCEPT !.sendQ = Append(@, [obj |-> o, id |-> globRebID]),
                          !.laterx = TRUE,
                          !.sentOK = IF addAck THEN @ \cup {o} ELSE @],
          o)

WalkOutcomes ==
    {"ok", "initErrBck", "initErr", "hrwErr", "loadErr", "sendLoadErr", "copy",
     "cksumErr", "openErr", "sendErr"}

\* walk without the test of the HRW target against the local target (a mutant of walkStep)
walkStepNoSelf(k, o, out) ==
    IF xreb.aborted \/ xreb.finished THEN "halt"
    ELSE IF out = "initErrBck" THEN "halt"
    ELSE IF out = "initErr" THEN "skip"
    ELSE IF ECEnabled(o) THEN "skip"
    ELSE IF out = "hrwErr" THEN "halt"
    ELSE IF tsmapVer > k.ver THEN "abort"
    ELSE IF o \in filterGFN THEN "gfn"
    ELSE IF out = "loadErr" THEN "halt"
    ELSE "send"

\* walk without the lookup in the GFN filter (a mutant of walkStep)
walkStepNoGFN(k, o, out) ==
    IF xreb.aborted \/ xreb.finished THEN "halt"
    ELSE IF out = "initErrBck" THEN "halt"
    ELSE IF out = "initErr" THEN "skip"
    ELSE IF ECEnabled(o) THEN "skip"
    ELSE IF out = "hrwErr" THEN "halt"
    ELSE IF HrwTarget(o) = Self THEN "skip"
    ELSE IF tsmapVer > k.ver THEN "abort"
    ELSE IF out = "loadErr" THEN "halt"
    ELSE "send"

\* what walk does with a file: "halt" (it returns an error, which ends the
\* traversal), "abort" (abortGlobal and an error), "skip" (nil or SkipDir without
\* sending), "gfn" (skipped as pulled by GFN) or "send"
walkStep(k, o, out) ==
    IF xreb.aborted \/ xreb.finished THEN "halt"
    ELSE IF out = "initErrBck" THEN "halt"
    ELSE IF out = "initErr" THEN "skip"
    ELSE IF ECEnabled(o) THEN "skip"
    ELSE IF out = "hrwErr" THEN "halt"
    ELSE IF HrwTarget(o) = Self THEN "skip"
    ELSE IF tsmapVer > k.ver THEN "abort"
    ELSE IF o \in filterGFN THEN "gfn"
    ELSE IF out = "loadErr" THEN "halt"
    ELSE "send"

\* globalJogger.walk(fqn, de) for the next file o of the traversal of call c (the
\* sends are made by the jogger itself: rebalance.multiplier is 1)
Walk(c, o, out) ==
    /\ call[c].pc = "jog"
    /\ ~call[c].halted
    /\ o \in store \ call[c].visited
    /\ LET k  == call[c]
           w  == walkStep(k, o, out)
           d  == IF w = "send" THEN send(SendRec, o, TRUE, out) ELSE SendRec
       IN  /\ Len(d.sendQ) <= MaxInQueue
           /\ lomAcks' = d.lomAcks
           /\ sendQ' = d.sendQ
           /\ lomLocks' = d.locks
           /\ laterx' = d.laterx
           /\ sentOK' = d.sentOK
           /\ xreb' = IF w = "abort" THEN Abort(xreb, "global") ELSE xreb
           /\ filterGFN' = IF w = "gfn" THEN filterGFN \ {o} ELSE filterGFN
           /\ call' = [call EXCEPT ![c] =
                          [k EXCEPT !.visited = @ \cup {o},
                                    !.halted = w \in {"halt", "abort"} \/ d.err]]
    /\ UNCHANGED <<tsmapVer, mgrVars, acks, store, peerStore, store0, acked, timedOut,
                   gcVars, pollVars>>

\* the end of the traversal entering globalRebWaitAck without waiting for the
\* EC rebalance that runs in parallel (a mutant of JogDone)
JogDoneNoJoin(c) ==
    /\ call[c].pc = "jog"
    /\ call[c].halted \/ store \subseteq call[c].visited
    /\ LET k == [call[c] EXCEPT !.visited = {}, !.halted = FALSE]
       IN  IF xreb.aborted
           THEN /\ call' = [call EXCEPT ![c] = [k EXCEPT !.pc = "fin"]]
                /\ UNCHANGED stage
           ELSE /\ call' = [call EXCEPT ![c] = [k EXCEPT !.pc = "wack", !.curwt = 0,
                                                        !.cnt = 0]]
                /\ stage' = rebStageWaitAck
    /\ UNCHANGED <<tsmapVer, semaCh, globRebID, rsmapVer, marker, streamsOpen, gfnActive,
                   laterx, xreb, dataVars, histVars, gcVars, pollVars>>

\* the traversal is over; globalRebRun returns an error if the run was aborted,
\* and RunGlobalReb enters globalRebWaitAck otherwise: changeStage(rebStageWaitAck);
\* with the EC rebalance running in parallel globalRebSyncAndRun waits for it first
JogDone(c) ==
    /\ call[c].pc = "jog"
    /\ call[c].halted \/ store \subseteq call[c].visited
    /\ LET k == [call[c] EXCEPT !.visited = {}, !.halted = FALSE]
       IN  IF k.ecpc # "none"
           THEN /\ call' = [call EXCEPT ![c] = [k EXCEPT !.pc = "join",
                                                        !.rebErr = xreb.aborted]]
                /\ UNCHANGED stage
           ELSE IF xreb.aborted
           THEN /\ call' = [call EXCEPT ![c] = [k EXCEPT !.pc = "fin"]]
                /\ UNCHANGED stage
           ELSE /\ call' = [call EXCEPT ![c] = [k EXCEPT !.pc = "wack", !.curwt = 0,
                                                        !.cnt = 0]]
                /\ stage' = rebStageWaitAck
    /\ UNCHANGED <<tsmapVer, semaCh, globRebID, rsmapVer, marker, streamsOpen, gfnActive,
                   laterx, xreb, dataVars, histVars, gcVars, pollVars>>


\* ------------------------------------------------------------------------
\* Wait for the ACKs, synchronize, retransmit (globalRebWaitAck)
\* ------------------------------------------------------------------------

\* globalRebWaitAck leaving as soon as no ACK is pending, without the
\* synchronization and the retransmit (a mutant of WaitAckPoll)
WaitAckPollNoRetx(c) ==
    /\ call[c].pc = "wack"
    /\ LET k   == call[c]
           cnt == Cardinality(lomAcks)
       IN  call' = [call EXCEPT ![c] =
                       IF cnt = 0 \/ k.curwt >= maxwt
                       THEN [k EXCEPT !.pc = "fin", !.cnt = cnt, !.curwt = 0]
                       ELSE [k EXCEPT !.cnt = cnt, !.curwt = @ + 1]]
    /\ UNCHANGED <<tsmapVer, mgrVars, laterx, xreb, dataVars, histVars, gcVars, pollVars>>

\* globalRebWaitAck, one round of the inner loop: the pending ACKs are counted; an
\* aborted run returns; with no ACK pending, or when maxwt is used up, the call
\* goes on to synchronize; otherwise it sleeps
WaitAckPoll(c) ==
    /\ call[c].pc = "wack"
    /\ LET k   == call[c]
           cnt == IF k.curwt < maxwt THEN Cardinality(lomAcks) ELSE k.cnt
       IN  call' = [call EXCEPT ![c] =
                       IF xreb.aborted
                       THEN [k EXCEPT !.pc = "fin", !.cnt = cnt, !.curwt = 0]
                       ELSE IF cnt = 0 \/ k.curwt >= maxwt
                       THEN [k EXCEPT !.pc = "wsync", !.cnt = cnt, !.curwt = 0]
                       ELSE [k EXCEPT !.cnt = cnt, !.curwt = @ + 1]]
    /\ UNCHANGED <<tsmapVer, mgrVars, laterx, xreb, dataVars, histVars, gcVars, pollVars>>

\* waitFinExtended(tsi, md), one round of its loop; pushed: the peer's push
\* notification of the fin stage has arrived. The result: the locals, the
\* xaction, whether the function returns (ret) and what (ok)
waitFinExtended(k, x, pushed, r) ==
    LET res == checkGlobStatus(r, k.ver, globRebID, rebStageFin, x.aborted)
        x1  == AbortOn(x, res, k.ver)
        out(kk, xx, ret, ok) == [k |-> kk, x |-> xx, ret |-> ret, ok |-> ok]
    IN  IF k.curwt >= maxwt THEN out(k, x, TRUE, FALSE)
        ELSE IF x.aborted THEN out(k, x, TRUE, FALSE)
        ELSE IF pushed THEN out(k, x, TRUE, TRUE)
        ELSE IF res.ok THEN out(k, x1, TRUE, TRUE)
        ELSE IF x1.aborted THEN out(k, x1, TRUE, FALSE)
        ELSE IF res.status.Stage <= rebStageECNamespace
             THEN out([k EXCEPT !.curwt = IF res.status.Stage # rebStageInactive
                                          THEN 0 ELSE k.curwt + 2],
                      x1, FALSE, FALSE)
        ELSE IF Self \notin res.status.Tmap THEN out(k, x1, TRUE, TRUE)
        ELSE out([k EXCEPT !.curwt = @ + 2], x1, FALSE, FALSE)

\* globalRebWaitAck, step 8: bcast(waitFinExtended); an aborted run returns,
\* another one goes on to retransmit
WaitAckSync(c, pushed, r) ==
    /\ call[c].pc = "wsync"
    /\ LET w == waitFinExtended(call[c], xreb, pushed, r)
       IN  /\ xreb' = w.x
           /\ call' = [call EXCEPT ![c] =
                          IF ~w.ret THEN w.k
                          ELSE [w.k EXCEPT !.curwt = 0,
                                           !.errCnt = IF w.ok THEN 0 ELSE 1,
                                           !.pc = IF w.x.aborted THEN "fin" ELSE "retx"]]
    /\ UNCHANGED <<tsmapVer, mgrVars, laterx, dataVars, histVars, gcVars, pollVars>>

\* the ways to treat the pending entries: resent, dropped (the destination is no
\* longer the HRW target), or failing to be resent
RetxChoices(S) == [S -> {"resend", "drop", "fail"}]

\* the entries in some order
RECURSIVE resendAll(_, _, _)
resendAll(d, S, ch) ==
    IF S = {} THEN d
    ELSE LET o  == CHOOSE x \in S : TRUE
             d1 == IF ch[o] = "drop" THEN [d EXCEPT !.err = TRUE]
                   ELSE send([d EXCEPT !.err = FALSE], o, FALSE,
                             IF ch[o] = "resend" THEN "ok" ELSE "sendErr")
             d2 == IF d1.err
                   THEN [d1 EXCEPT !.lomAcks = @ \ {o}, !.dropped = @ \cup {o}]
                   ELSE [d1 EXCEPT !.cnt = @ + 1]
         IN  resendAll(d2, S \ {o}, ch)

\* reb.retransmit (not part of the sources: modelled from the specification,
\* section 4.3 step 5 and section 7): every pending entry is resent to its HRW
\* target with send(lom, tsi, false), or dropped when the target is no longer
\* the destination or the stream to it is broken; the result is the number resent
retransmit(ch) ==
    resendAll([lomAcks |-> lomAcks, sendQ |-> sendQ, laterx |-> laterx,
               sentOK |-> sentOK, locks |-> lomLocks, err |-> FALSE, cnt |-> 0,
               dropped |-> {}],
              lomAcks, ch)

\* globalRebWaitAck, step 9: retransmit; with nothing resent, or aborted, the
\* loop is left, otherwise the wait starts again
Retransmit(c, ch) ==
    /\ call[c].pc = "retx"
    /\ LET k == call[c]
           d == retransmit(ch)
       IN  /\ Len(d.sendQ) <= MaxInQueue
           /\ lomAcks' = d.lomAcks
           /\ sendQ' = d.sendQ
           /\ lomLocks' = d.locks
           /\ laterx' = d.laterx
           /\ timedOut' = timedOut \cup d.dropped
           /\ call' = [call EXCEPT ![c] =
                          IF d.cnt = 0 \/ xreb.aborted
                          THEN [k EXCEPT !.pc = "fin", !.cnt = d.cnt]
                          ELSE [k EXCEPT !.pc = "wack", !.cnt = d.cnt, !.curwt = 0]]
    /\ UNCHANGED <<tsmapVer, mgrVars, xreb, filterGFN, acks, store, peerStore, store0,
                   sentOK, acked, gcVars, pollVars>>

\* RunGlobalReb after globalRebWaitAck: changeStage(rebStageFin)
ChangeStageFin(c) ==
    /\ call[c].pc = "fin"
    /\ stage' = rebStageFin
    /\ call' = [call EXCEPT ![c] =
                   IF call[c].errCnt # 0 /\ ~xreb.aborted
                   THEN [@ EXCEPT !.pc = "finwait", !.curwt = 0]
                   ELSE [@ EXCEPT !.pc = "quiesce", !.curwt = 0, !.errCnt = 0,
                                  !.cnt = 0, !.quiescent = 0, !.ab = xreb.aborted]]
    /\ UNCHANGED <<tsmapVer, semaCh, globRebID, rsmapVer, marker, streamsOpen, gfnActive,
                   laterx, xreb, dataVars, histVars, gcVars, pollVars>>

\* RunGlobalReb: for errCnt != 0 && !aborted { errCnt = bcast(waitFinExtended) }
FinWait(c, pushed, r) ==
    /\ call[c].pc = "finwait"
    /\ LET w == waitFinExtended(call[c], xreb, pushed, r)
       IN  /\ xreb' = w.x
           /\ call' = [call EXCEPT ![c] =
                          IF ~w.ret THEN w.k
                          ELSE IF ~w.ok /\ ~w.x.aborted THEN [w.k EXCEPT !.curwt = 0]
                          ELSE [w.k EXCEPT !.pc = "quiesce", !.curwt = 0, !.errCnt = 0,
                                           !.cnt = 0, !.quiescent = 0,
                                           !.ab = w.x.aborted]]
    /\ UNCHANGED <<tsmapVer, mgrVars, laterx, dataVars, histVars, gcVars, pollVars>>


\* ------------------------------------------------------------------------
\* The EC rebalance (globalRebRunEC) and its wait loops. The steps that work
\* on the slices (runEC, exchange, rebalanceLocal, rebalanceGlobal: reb/ec.go)
\* are not part of the sources: they are modelled from the specification,
\* section 4.3 step 4 and section 4.4, as the stage they publish and the
\* error they may return. ecpc is the position of the EC rebalance:
\*   namespace -> pushns -> (waitns) -> exchange -> pushdata -> (waitdata)
\*   -> fixlocal -> waitlocal -> fixglobal -> (batch -> fixglobal)* -> waitcleanup
\*   -> done | failed
\* ------------------------------------------------------------------------

\* half of the targets, rounded up (a mutant of maxMissing)
maxMissingUp(n) == (n + 1) \div 2

\* maxMissing := len(md.smap.Tmap) / 2
maxMissing(n) == n \div 2

\* runEC: the local slices are collected (reb.ec has data from now on), the
\* stage becomes EC-namespace
RunEC(c) ==
    /\ call[c].ecpc = "namespace"
    /\ stage' = rebStageECNamespace
    /\ call' = [call EXCEPT ![c] = [@ EXCEPT !.ecpc = "pushns", !.ecwt = 0]]
    /\ ecColl' = TRUE
    /\ UNCHANGED <<tsmapVer, semaCh, globRebID, rsmapVer, marker, streamsOpen, gfnActive,
                   laterx, xreb, dataVars, histVars, gcVars, unitVars>>

\* waitForPushReqs(md, stg, timeout), one round of its loop; n is
\* len(md.smap.Tmap) and cnt is what nodesNotInStage returns. The result: the
\* locals, whether the function returns (ret) and what (val)
waitForPushReqs(n, k, x, cnt, stg) ==
    IF k.ecwt >= maxPushWait THEN [k |-> k, ret |-> TRUE, val |-> FALSE]
    ELSE IF x.aborted THEN [k |-> k, ret |-> TRUE, val |-> TRUE]
    ELSE IF cnt < maxMissing(n) \/ stg <= rebStageECNamespace
         THEN [k |-> k, ret |-> TRUE, val |-> cnt = 0]
    ELSE [k |-> [k EXCEPT !.ecwt = @ + 1], ret |-> FALSE, val |-> FALSE]

\* buildECNamespace and distributeECNamespace: the wait for the push
\* notifications; when it returns false the targets are polled
PushReqs(c, cnt) ==
    /\ call[c].ecpc \in {"pushns", "pushdata"}
    /\ LET k   == call[c]
           ns  == k.ecpc = "pushns"
           w   == waitForPushReqs(Cardinality(Tmap), k, xreb, cnt,
                                  IF ns THEN rebStageECNamespace ELSE rebStageECDetect)
       IN  call' = [call EXCEPT ![c] =
                       IF ~w.ret THEN w.k
                       ELSE IF w.val
                       THEN [k EXCEPT !.ecpc = IF ns THEN "exchange" ELSE "fixlocal",
                                      !.ecwt = 0]
                       ELSE [k EXCEPT !.ecpc = IF ns THEN "waitns" ELSE "waitdata",
                                      !.ecwt = 0]]
    /\ UNCHANGED <<tsmapVer, mgrVars, laterx, xreb, dataVars, histVars, gcVars, pollVars>>

\* the largest cluster in which the wait for push notifications is taken on its own
MaxTargets == 5

\* the wait on its own: the size of the cluster, the stage waited for, the
\* targets that nodesNotInStage counts and the abort flag at the first round
PushInputs ==
    {p \in [n : 2..MaxTargets,
            stg : {rebStageECNamespace, rebStageECDetect, rebStageECGlobRepair},
            ecwt : {0}, cnt : 0..(MaxTargets - 1), abrt : BOOLEAN,
            ret : {FALSE}, val : {FALSE}] : p.cnt < p.n}

PushInit ==
    /\ pollIn = NoPoll
    /\ pollOut = NoPoll
    /\ push \in PushInputs
    /\ wt = newWaiter
    /\ pull = NoPull
    /\ mem = NoMem
    /\ ecBck = {}
    /\ jg = NoJog
    /\ ecColl = FALSE
    /\ txn = NoTxn

\* one round of waitForPushReqs on its own; during the sleep of a round that
\* does not return more targets may push their notification (cnt) and the
\* xaction may be aborted (a)
PushWait ==
    /\ ~push.ret
    /\ LET w == waitForPushReqs(push.n, [ecwt |-> push.ecwt], [aborted |-> push.abrt],
                                push.cnt, push.stg)
       IN  \E cnt \in 0..push.cnt, a \in BOOLEAN :
               /\ push.abrt => a
               /\ push' = IF w.ret THEN [push EXCEPT !.ret = TRUE, !.val = w.val]
                          ELSE [push EXCEPT !.ecwt = w.k.ecwt, !.cnt = cnt, !.abrt = a]
    /\ UNCHANGED <<pollIn, pollOut, wt, pull, mem, ecBck, jg, ecColl, txn, gcVars, rebVars>>

\* waitStage without the test of the abort flag (a mutant of waitStage)
waitStageNoAbort(k, x, pushed, r, stg) ==
    LET res == checkGlobStatus(r, k.ver, globRebID, stg, x.aborted)
        x1  == AbortOn(x, res, k.ver)
        out(kk, xx, ret, ok) == [k |-> kk, x |-> xx, ret |-> ret, ok |-> ok]
    IN  IF k.ecwt >= maxwt THEN out(k, x, TRUE, FALSE)
        ELSE IF pushed THEN out(k, x, TRUE, TRUE)
        ELSE IF res.ok /\ res.status.Stage >= stg THEN out(k, x1, TRUE, TRUE)
        ELSE out([k EXCEPT !.ecwt = @ + 1], x1, FALSE, FALSE)

\* waitStage(si, md, stg), one round of its loop; pushed: the peer's push
\* notification of the stage has arrived
waitStage(k, x, pushed, r, stg) ==
    LET res == checkGlobStatus(r, k.ver, globRebID, stg, x.aborted)
        x1  == AbortOn(x, res, k.ver)
        out(kk, xx, ret, ok) == [k |-> kk, x |-> xx, ret |-> ret, ok |-> ok]
    IN  IF k.ecwt >= maxwt THEN out(k, x, TRUE, FALSE)
        ELSE IF pushed THEN out(k, x, TRUE, TRUE)
        ELSE IF res.ok /\ res.status.Stage >= stg THEN out(k, x1, TRUE, TRUE)
        ELSE IF x1.aborted THEN out(k, x1, TRUE, FALSE)
        ELSE out([k EXCEPT !.ecwt = @ + 1], x1, FALSE, FALSE)

\* the stage that waitNamespace, waitECLocalReb and waitECCleanup wait for
WaitedStage(pc) ==
    IF pc = "waitns" THEN rebStageECNamespace
    ELSE IF pc = "waitlocal" THEN rebStageECGlobRepair
    ELSE rebStageECCleanup

\* bcast(waitNamespace), bcast(waitECLocalReb), bcast(waitECCleanup): a target
\* that does not reach the stage makes the EC rebalance return an error
WaitStage(c, pushed, r) ==
    /\ call[c].ecpc \in {"waitns", "waitlocal", "waitcleanup"}
    /\ LET k    == call[c]
           w    == waitStage(k, xreb, pushed, r, WaitedStage(k.ecpc))
           next == IF k.ecpc = "waitns" THEN "exchange"
                   ELSE IF k.ecpc = "waitlocal" THEN "fixglobal"
                   ELSE "done"
       IN  /\ xreb' = w.x
           /\ call' = [call EXCEPT ![c] =
                          IF ~w.ret THEN w.k
                          ELSE [w.k EXCEPT !.ecwt = 0,
                                           !.ecpc = IF w.ok THEN next ELSE "failed"]]
    /\ UNCHANGED <<tsmapVer, mgrVars, laterx, dataVars, histVars, gcVars, pollVars>>

\* exchange: the lists of slices are sent to the other targets; the stage
\* becomes EC-detect
Exchange(c, err) ==
    /\ call[c].ecpc = "exchange"
    /\ IF err
       THEN /\ call' = [call EXCEPT ![c] = [@ EXCEPT !.ecpc = "failed"]]
            /\ UNCHANGED stage
       ELSE /\ call' = [call EXCEPT ![c] = [@ EXCEPT !.ecpc = "pushdata", !.ecwt = 0]]
            /\ stage' = rebStageECDetect
    /\ UNCHANGED <<tsmapVer, semaCh, globRebID, rsmapVer, marker, streamsOpen, gfnActive,
                   laterx, xreb, dataVars, histVars, gcVars, pollVars>>

\* http.StatusOK, http.StatusAccepted, http.StatusNoContent
StatusOK == 200

StatusAccepted == 202

StatusNoContent == 204

\* reb.ec.nodeData(id): the slices of a target and whether there is an entry
NodeData(slices) == [ok |-> TRUE, slices |-> slices]

NoNodeData == [ok |-> FALSE, slices |-> {}]

\* the slice lists of a target
SliceLists == {{}, {"s1"}, {"s1", "s2"}}

\* cmn.MustMarshal(slices): the JSON text of a slice list
MustMarshal(slices) == [json |-> TRUE, v |-> slices]

\* the nil body, and a body that is not the JSON of a slice list
NilBody == [json |-> FALSE, v |-> {}]

\* jsoniter.Unmarshal(outjson, &slices)
Unmarshal(body) == [err |-> ~body.json, slices |-> IF body.json THEN body.v ELSE {}]

\* GlobECDataStatus that tests the slice list before the stage (a mutant of
\* GlobECDataStatus)
GlobECDataStatusNoStage(stg, local) ==
    IF ~local.ok THEN [body |-> NilBody, status |-> StatusNoContent]
    ELSE IF stg < rebStageECDetect THEN [body |-> NilBody, status |-> StatusAccepted]
    ELSE [body |-> MustMarshal(local.slices), status |-> StatusOK]

\* GlobECDataStatus() of a target in the stage stg whose entry of its own
\* slices is local
GlobECDataStatus(stg, local) ==
    IF stg < rebStageECDetect THEN [body |-> NilBody, status |-> StatusAccepted]
    ELSE IF ~local.ok THEN [body |-> NilBody, status |-> StatusNoContent]
    ELSE [body |-> MustMarshal(local.slices), status |-> StatusOK]

\* reb.t.RebalanceNamespace(si): the call fails (err), or it brings what the
\* peer's GlobECDataStatus answered (e), the body possibly damaged on the way
RebalanceNamespace(e, err, damaged) ==
    IF err THEN [err |-> TRUE, status |-> 0, body |-> NilBody]
    ELSE [err |-> FALSE, status |-> e.status,
          body |-> IF damaged THEN NilBody ELSE e.body]

\* reb.stages and reb.ec.nodeData as maps of the targets: the peer is in the
\* stage st and its slices are nd; the target itself has reached stg
StagesOf(st, stg) == [si \in Tmap |-> IF si = Self THEN stg ELSE st]

NodesOf(nd) == [si \in Tmap |-> IF si = Self THEN NodeData({}) ELSE nd]

\* nodesNotInStage that does not look for the slices of the target (a mutant
\* of nodesNotInStage)
nodesNotInStageNoData(tmap, stages, nodes, stg) ==
    Cardinality({si \in tmap \ {Self} : ~(stages[si] >= stg)})

\* nodesNotInStage(md, stg): the number of the other targets of tmap that have
\* not reached stg; a target in EC-detect whose slices are not here counts
nodesNotInStage(tmap, stages, nodes, stg) ==
    Cardinality({si \in tmap \ {Self} :
                    \/ ~(stages[si] >= stg)
                    \/ stg = rebStageECDetect /\ ~nodes[si].ok})

\* what a pull request may bring, whatever the state of the peer
PullReplies ==
    {RebalanceNamespace(GlobECDataStatus(stg, local), err, damaged) :
        stg \in {rebStageECNamespace, rebStageECDetect},
        local \in {NoNodeData} \cup {NodeData(l) : l \in SliceLists},
        err \in BOOLEAN, damaged \in BOOLEAN}

\* waitECData(si, md), one round of its loop; nd and siStage are what the
\* target has of the peer, its slices (reb.ec.nodeData(si.ID())) and its stage
\* (reb.stages); rp is what the pull request brings. The result: the locals,
\* the xaction, whether the function returns (ret) and what (ok), and what the
\* target then has of the peer
waitECData(k, x, nd, siStage, rp) ==
    LET out(kk, xx, ret, ok, d, st) ==
            [k |-> kk, x |-> xx, ret |-> ret, ok |-> ok, nd |-> d, siStage |-> st]
        u == Unmarshal(rp.body)
    IN  IF k.ecwt >= maxwt THEN out(k, x, TRUE, FALSE, nd, siStage)
        ELSE IF x.aborted THEN out(k, x, TRUE, TRUE, nd, siStage)
        ELSE IF siStage >= rebStageECDetect /\ nd.ok
             THEN out(k, x, TRUE, TRUE, nd, siStage)
        ELSE IF rp.err THEN out(k, Abort(x, "global"), TRUE, FALSE, nd, siStage)
        ELSE IF rp.status = StatusAccepted
             THEN out([k EXCEPT !.ecwt = @ + 1], x, FALSE, FALSE, nd, siStage)
        ELSE IF rp.status # StatusNoContent /\ u.err
             THEN out([k EXCEPT !.ecwt = @ + 1], x, FALSE, FALSE, nd, siStage)
        ELSE out(k, x, TRUE, TRUE,
                 NodeData(IF rp.status # StatusNoContent THEN u.slices ELSE {}),
                 rebStageECDetect)

\* distributeECNamespace: bcast(waitECData); have: the peer has pushed its
\* list. A target that fails to send its data makes the EC rebalance return
\* an error
WaitECData(c, have, rp) ==
    /\ call[c].ecpc = "waitdata"
    /\ LET w == waitECData(call[c], xreb,
                           IF have THEN NodeData({}) ELSE NoNodeData,
                           IF have THEN rebStageECDetect ELSE rebStageECNamespace, rp)
       IN  /\ xreb' = w.x
           /\ call' = [call EXCEPT ![c] =
                          IF ~w.ret THEN w.k
                          ELSE [w.k EXCEPT !.ecwt = 0,
                                           !.ecpc = IF w.ok THEN "fixlocal"
                                                    ELSE "failed"]]
    /\ UNCHANGED <<tsmapVer, mgrVars, laterx, dataVars, histVars, gcVars, pollVars>>

\* the pull on its own: the peer is in the stage EC-namespace or EC-detect and
\* has an entry of its own slices or none; the puller has what the peer pushed
\* of its slices, or nothing, and the stage the peer has notified
PullInputs ==
    {[stage |-> stg, local |-> local,
      nd |-> IF pushed THEN NodeData(local.slices) ELSE NoNodeData,
      siStage |-> IF staged THEN rebStageECDetect ELSE rebStageECNamespace,
      ecwt |-> 0,
      x |-> [id |-> 1, ver |-> 1, aborted |-> FALSE, finished |-> FALSE, by |-> "none"],
      ret |-> FALSE, ok |-> FALSE] :
        stg \in {rebStageECNamespace, rebStageECDetect},
        local \in {NoNodeData} \cup {NodeData(l) : l \in SliceLists},
        pushed \in BOOLEAN, staged \in BOOLEAN}

PullInit ==
    /\ pollIn = NoPoll
    /\ pollOut = NoPoll
    /\ push = NoPush
    /\ wt = newWaiter
    /\ pull \in {p \in PullInputs : p.siStage <= p.stage}
    /\ mem = NoMem
    /\ ecBck = {}
    /\ jg = NoJog
    /\ ecColl = FALSE
    /\ txn = NoTxn

\* one round of waitECData on its own: the request is answered by the peer's
\* GlobECDataStatus
PullData(err, damaged) ==
    /\ ~pull.ret
    /\ LET rp == RebalanceNamespace(GlobECDataStatus(pull.stage, pull.local), err, damaged)
           w  == waitECData([ecwt |-> pull.ecwt], pull.x, pull.nd, pull.siStage, rp)
       IN  pull' = [pull EXCEPT !.ecwt = w.k.ecwt, !.x = w.x, !.nd = w.nd,
                                !.siStage = w.siStage, !.ret = w.ret, !.ok = w.ok]
    /\ UNCHANGED <<pollIn, pollOut, push, wt, mem, ecBck, jg, ecColl, txn, gcVars, rebVars>>

\* the peer's own run goes on to its next stage
PeerStage ==
    /\ ~pull.ret
    /\ pull.stage < rebStageECGlobRepair
    /\ pull' = [pull EXCEPT !.stage = @ + 1]
    /\ UNCHANGED <<pollIn, pollOut, push, wt, mem, ecBck, jg, ecColl, txn, gcVars, rebVars>>

\* the puller's xaction is aborted from outside its run
PullAbort ==
    /\ ~pull.ret
    /\ ~pull.x.aborted
    /\ pull' = [pull EXCEPT !.x = Abort(@, "local")]
    /\ UNCHANGED <<pollIn, pollOut, push, wt, mem, ecBck, jg, ecColl, txn, gcVars, rebVars>>

PullNext ==
    \/ \E err \in BOOLEAN, damaged \in BOOLEAN : PullData(err, damaged)
    \/ PeerStage
    \/ PullAbort

\* generateECFixList and ecFixLocal up to its broadcast: rebalanceLocal moves
\* the misplaced slices; the stage becomes EC-glob-repair
RebalanceLocal(c, err) ==
    /\ call[c].ecpc = "fixlocal"
    /\ IF err
       THEN /\ call' = [call EXCEPT ![c] = [@ EXCEPT !.ecpc = "failed"]]
            /\ UNCHANGED stage
       ELSE /\ call' = [call EXCEPT ![c] = [@ EXCEPT !.ecpc = "waitlocal", !.ecwt = 0]]
            /\ stage' = rebStageECGlobRepair
    /\ UNCHANGED <<tsmapVer, semaCh, globRebID, rsmapVer, marker, streamsOpen, gfnActive,
                   laterx, xreb, dataVars, histVars, gcVars, pollVars>>

\* ecFixGlobal, rebalanceGlobal: the next batch is started (stage EC-batches), or
\* after the last one the stage becomes EC-cleanup; on an error of
\* rebalanceGlobal the run is aborted, unless it is already
RebalanceGlobal(c, err) ==
    /\ call[c].ecpc = "fixglobal"
    /\ LET k == call[c]
       IN  IF err
           THEN /\ xreb' = IF xreb.aborted THEN xreb ELSE Abort(xreb, "global")
                /\ call' = [call EXCEPT ![c] = [k EXCEPT !.ecpc = "failed"]]
                /\ UNCHANGED stage
           ELSE IF k.batch < ecBatches
           THEN /\ stage' = rebStageECBatch
                /\ call' = [call EXCEPT ![c] = [k EXCEPT !.ecpc = "batch", !.ecwt = 0]]
                /\ UNCHANGED xreb
           ELSE /\ stage' = rebStageECCleanup
                /\ call' = [call EXCEPT ![c] = [k EXCEPT !.ecpc = "waitcleanup",
                                                        !.ecwt = 0, !.batch = 0]]
                /\ UNCHANGED xreb
    /\ UNCHANGED <<tsmapVer, semaCh, globRebID, rsmapVer, marker, streamsOpen, gfnActive,
                   laterx, dataVars, histVars, gcVars, pollVars>>

\* waitEvent(md, cb, maxWait), one round of its loop, from the end of a sleep to
\* the end of the next: aborted (read by AbortedAfter, or by Aborted before the
\* first round) ends the loop, then waited > toWait does, then cb returning
\* true. The result: the locals, whether the function returns (ret) and what
\* (aborted)
waitEvent(k, x, cb) ==
    IF x.aborted THEN [k |-> k, ret |-> TRUE, aborted |-> TRUE]
    ELSE IF k.ecwt > maxwt THEN [k |-> k, ret |-> TRUE, aborted |-> FALSE]
    ELSE IF cb THEN [k |-> k, ret |-> TRUE, aborted |-> FALSE]
    ELSE [k |-> [k EXCEPT !.ecwt = @ + 1], ret |-> FALSE, aborted |-> FALSE]

\* rebalanceGlobal: the wait for the batch to be completed by all targets; an
\* aborted wait makes rebalanceGlobal return an error
BatchWait(c, cb) ==
    /\ call[c].ecpc = "batch"
    /\ LET w == waitEvent(call[c], xreb, cb)
       IN  call' = [call EXCEPT ![c] =
                       IF ~w.ret THEN w.k
                       ELSE IF w.aborted THEN [w.k EXCEPT !.ecpc = "failed", !.ecwt = 0]
                       ELSE [w.k EXCEPT !.ecpc = "fixglobal", !.ecwt = 0,
                                        !.batch = @ + 1]]
    /\ UNCHANGED <<tsmapVer, mgrVars, laterx, xreb, dataVars, histVars, gcVars, pollVars>>

\* globalRebSyncAndRun returns when the regular and the EC rebalance have: with
\* an error of either RunGlobalReb goes on to the fin stage, otherwise it enters
\* globalRebWaitAck: changeStage(rebStageWaitAck)
SyncJoin(c) ==
    /\ call[c].pc = "join"
    /\ call[c].ecpc \in {"done", "failed"}
    /\ LET k == [call[c] EXCEPT !.ecpc = "none", !.rebErr = FALSE]
       IN  IF call[c].rebErr \/ call[c].ecpc = "failed"
           THEN /\ call' = [call EXCEPT ![c] = [k EXCEPT !.pc = "fin"]]
                /\ UNCHANGED stage
           ELSE /\ call' = [call EXCEPT ![c] = [k EXCEPT !.pc = "wack", !.curwt = 0,
                                                        !.cnt = 0]]
                /\ stage' = rebStageWaitAck
    /\ UNCHANGED <<tsmapVer, semaCh, globRebID, rsmapVer, marker, streamsOpen, gfnActive,
                   laterx, xreb, dataVars, histVars, gcVars, pollVars>>

\* the steps of the EC rebalance of the calls CS
ECNext(CS) ==
    \/ \E c \in CS : RunEC(c)
    \/ \E c \in CS, st \in {rebStageTraverse, rebStageECNamespace, rebStageECDetect},
          nd \in {NoNodeData, NodeData({})} :
            PushReqs(c, nodesNotInStage(Tmap, StagesOf(st, stage), NodesOf(nd), stage))
    \/ \E c \in CS, pushed \in BOOLEAN :
          \E r \in Replies(call[c].ver, globRebID) : WaitStage(c, pushed, r)
    \/ \E c \in CS, err \in BOOLEAN : Exchange(c, err)
    \/ \E c \in CS, have \in BOOLEAN, rp \in PullReplies : WaitECData(c, have, rp)
    \/ \E c \in CS, err \in BOOLEAN : RebalanceLocal(c, err)
    \/ \E c \in CS, err \in BOOLEAN : RebalanceGlobal(c, err)
    \/ \E c \in CS, cb \in BOOLEAN : BatchWait(c, cb)
    \/ \E c \in CS : SyncJoin(c)


\* ------------------------------------------------------------------------
\* Quiesce and fini (waitQuiesce, nodesQuiescent, globalRebFini)
\* ------------------------------------------------------------------------

\* reb.isQuiescent (not part of the sources; Status.Quiescent is documented as
\* "transport queue is empty"): no frame of the target waits for its completion
isQuiescent == sendQ = <<>>

\* GetGlobStatus: the status the modelled target answers a health call with
GetGlobStatus ==
    Status(tsmapVer, rsmapVer, globRebID, stage, xreb.aborted, isQuiescent,
           IF stage = rebStageWaitAck /\ tsmapVer = rsmapVer
           THEN {HrwTarget(o) : o \in lomAcks} ELSE {})

\* nodesQuiescent(md): the loop over md.smap.Tmap in the order ord, the peer
\* answering r; the result: quiet and the xaction after the polls made
RECURSIVE nodesQuiescent(_, _, _, _)
nodesQuiescent(ord, r, k, x) ==
    IF ord = <<>> THEN [quiet |-> TRUE, x |-> x]
    ELSE LET si  == Head(ord)
             rep == IF si = Self THEN Reply(FALSE, FALSE, FALSE, GetGlobStatus) ELSE r
             res == checkGlobStatus(rep, k.ver, globRebID, stage, x.aborted)
             x1  == AbortOn(x, res, k.ver)
         IN  IF si = Self /\ ~isQuiescent THEN [quiet |-> FALSE, x |-> x]
             ELSE IF ~res.ok \/ ~res.status.Quiescent THEN [quiet |-> FALSE, x |-> x1]
             ELSE nodesQuiescent(Tail(ord), r, k, x1)

\* waitQuiesce's counting with a non-quiet round leaving the count as it is (a
\* mutant of quietCount)
quietCountKeeps(q, lx) == IF ~lx THEN q + 1 ELSE q

\* waitQuiesce's counting with the activity flag ignored (a mutant of quietCount)
quietCountNoLaterx(q, lx) == q + 1

\* waitQuiesce: the count of consecutive quiet rounds after a round that finds
\* reb.laterx = lx (laterx.CAS(true, false) fails: one more; succeeds: zero)
quietCount(q, lx) == IF ~lx THEN q + 1 ELSE 0

\* maxQuiet := int(maxWait/sleep) + 1
maxQuiet == quiesceTicks + 1

\* globalRebFini: waitQuiesce(md, Rebalance.Quiesce, nodesQuiescent), one round of
\* its loop; the loop is left when the count reaches maxQuiet, when the run is
\* aborted, or at once when nodesQuiescent returns true
WaitQuiesce(c, ord, r) ==
    /\ call[c].pc = "quiesce"
    /\ LET k == call[c]
       IN  IF ~(k.quiescent < maxQuiet /\ ~k.ab)
           THEN /\ call' = [call EXCEPT ![c] = [k EXCEPT !.pc = "fini"]]
                /\ UNCHANGED <<laterx, xreb>>
           ELSE LET q  == quietCount(k.quiescent, laterx)
                    nq == nodesQuiescent(ord, r, k, xreb)
                IN  /\ laterx' = FALSE
                    /\ xreb' = nq.x
                    /\ call' = [call EXCEPT ![c] =
                                   IF nq.quiet
                                   THEN [k EXCEPT !.pc = "fini", !.quiescent = q]
                                   ELSE [k EXCEPT !.quiescent = q, !.ab = nq.x.aborted]]
    /\ UNCHANGED <<tsmapVer, mgrVars, dataVars, histVars, gcVars, pollVars>>

\* the completion callbacks of the frames q, called when the streams are closed:
\* objSentCallback unlocks the LOM of each
RECURSIVE drainCallbacks(_, _)
drainCallbacks(l, q) ==
    IF q = <<>> THEN l ELSE drainCallbacks(Unlock(l, Head(q).obj), Tail(q))

\* globalRebFini that does not hand the semaphore back (a mutant of GlobalRebFini)
GlobalRebFiniKeepsSema(c) ==
    /\ call[c].pc = "fini"
    /\ marker' = IF ~call[c].ab THEN FALSE ELSE marker
    /\ streamsOpen' = FALSE
    /\ filterGFN' = {}
    /\ xreb' = [xreb EXCEPT !.finished = TRUE]
    /\ stage' = rebStageDone
    /\ semaCh' = semaCh
    /\ gfnActive' = FALSE
    /\ sendQ' = <<>>
    /\ lomLocks' = drainCallbacks(lomLocks, sendQ)
    /\ call' = [call EXCEPT ![c] = Returned(@)]
    /\ ecColl' = IF call[c].ecUsed THEN FALSE ELSE ecColl
    /\ UNCHANGED <<tsmapVer, globRebID, rsmapVer, laterx, lomAcks, acks, store,
                   peerStore, histVars, gcVars, unitVars>>

\* globalRebFini that removes the marker of an aborted run too (a mutant of
\* GlobalRebFini)
GlobalRebFiniRemovesMarker(c) ==
    /\ call[c].pc = "fini"
    /\ marker' = FALSE
    /\ streamsOpen' = FALSE
    /\ filterGFN' = {}
    /\ xreb' = [xreb EXCEPT !.finished = TRUE]
    /\ stage' = rebStageDone
    /\ semaCh' = semaCh + 1
    /\ gfnActive' = FALSE
    /\ sendQ' = <<>>
    /\ lomLocks' = drainCallbacks(lomLocks, sendQ)
    /\ call' = [call EXCEPT ![c] = Returned(@)]
    /\ ecColl' = IF call[c].ecUsed THEN FALSE ELSE ecColl
    /\ UNCHANGED <<tsmapVer, globRebID, rsmapVer, laterx, lomAcks, acks, store,
                   peerStore, histVars, gcVars, unitVars>>

\* globalRebFini after waitQuiesce, and the return of RunGlobalReb; endStreams
\* closes the streams, whose queued frames complete with the termination error;
\* with md.ecUsed the collected EC data is cleaned up (cleanupEC)
GlobalRebFini(c) ==
    /\ call[c].pc = "fini"
    /\ marker' = IF ~call[c].ab THEN FALSE ELSE marker
    /\ streamsOpen' = FALSE
    /\ filterGFN' = {}
    /\ xreb' = [xreb EXCEPT !.finished = TRUE]
    /\ stage' = rebStageDone
    /\ semaCh' = semaCh + 1
    /\ gfnActive' = FALSE
    /\ sendQ' = <<>>
    /\ lomLocks' = drainCallbacks(lomLocks, sendQ)
    /\ call' = [call EXCEPT ![c] = Returned(@)]
    /\ ecColl' = IF call[c].ecUsed THEN FALSE ELSE ecColl
    /\ UNCHANGED <<tsmapVer, globRebID, rsmapVer, laterx, lomAcks, acks, store,
                   peerStore, histVars, gcVars, unitVars>>

\* ------------------------------------------------------------------------
\* The environment of the run: the Smap, the streams, the peer
\* ------------------------------------------------------------------------

\* the xaction is aborted from outside the run (the xaction registry: a user's
\* stop request, or the target going down)
XactAbort ==
    /\ xreb.id # 0
    /\ ~xreb.finished
    /\ ~xreb.aborted
    /\ xreb' = Abort(xreb, "local")
    /\ UNCHANGED <<tsmapVer, mgrVars, laterx, dataVars, call, histVars, gcVars, pollVars>>

\* the target receives a newer Smap
NewSmap ==
    /\ tsmapVer < MaxSmapVer
    /\ tsmapVer' = tsmapVer + 1
    /\ UNCHANGED <<mgrVars, laterx, xreb, dataVars, call, histVars, gcVars, pollVars>>

\* the peer receives a frame (the receive handlers are not part of the sources:
\* modelled from the specification, section 2): it writes the object and echoes
\* the frame's ack token
PeerRecv(f) ==
    /\ peerStore' = peerStore \cup {f.obj}
    /\ acks' = acks \cup {f}

\* globalJogger.objSentCallback for the frame at the head of the stream's queue:
\* reb.inQueue is decremented; with a nil error the frame was transmitted
ObjSentCallback(err) ==
    /\ sendQ # <<>>
    /\ sendQ' = Tail(sendQ)
    /\ lomLocks' = Unlock(lomLocks, Head(sendQ).obj)
    /\ IF err = "nil" THEN PeerRecv(Head(sendQ)) ELSE UNCHANGED <<peerStore, acks>>
    /\ UNCHANGED <<tsmapVer, mgrVars, laterx, xreb, filterGFN, lomAcks, store, call,
                   histVars, gcVars, pollVars>>

\* the target receives an ACK (not part of the sources: modelled from the
\* specification, sections 2 and 3): the ACK of the current run deletes the
\* pending-ack entry, and the object, now on its HRW target, is removed locally
RecvAck(a) ==
    /\ a \in acks
    /\ acks' = acks \ {a}
    /\ IF a.id = globRebID
       THEN /\ lomAcks' = lomAcks \ {a.obj}
            /\ store' = store \ {a.obj}
            /\ acked' = acked \cup {a.obj}
       ELSE UNCHANGED <<lomAcks, store, acked>>
    /\ UNCHANGED <<tsmapVer, mgrVars, laterx, xreb, filterGFN, sendQ, lomLocks, peerStore,
                   call, store0, sentOK, timedOut, gcVars, pollVars>>

\* the target receives an object it is the HRW target of (modelled from the
\* specification, section 2): it is written locally and the activity is flagged
RecvObj(o) ==
    /\ streamsOpen
    /\ o \in peerStore \ store
    /\ HrwTarget(o) = Self
    /\ store' = store \cup {o}
    /\ peerStore' = peerStore \ {o}
    /\ laterx' = TRUE
    /\ UNCHANGED <<tsmapVer, mgrVars, xreb, filterGFN, lomAcks, sendQ, lomLocks, acks,
                   call, histVars, gcVars, pollVars>>

\* the peer pulls an object from the target by GFN while the rebalance is on
\* (modelled from the specification, section 4.3 step 4): the object is flagged
GFN(o) ==
    /\ gfnActive
    /\ o \in store \ peerStore
    /\ HrwTarget(o) = Peer
    /\ o \notin lomAcks
    /\ peerStore' = peerStore \cup {o}
    /\ filterGFN' = filterGFN \cup {o}
    /\ UNCHANGED <<tsmapVer, mgrVars, laterx, xreb, lomAcks, sendQ, lomLocks, acks, store,
                   call, histVars, gcVars, pollVars>>

\* the manager after construction, with the objects S on the target and the
\* objects P on the peer
RebInitWith(S, P) ==
    /\ tsmapVer = 1
    /\ stage = rebStageInactive
    /\ semaCh = 1
    /\ globRebID = 0
    /\ rsmapVer = 0
    /\ marker = FALSE
    /\ streamsOpen = FALSE
    /\ gfnActive = FALSE
    /\ laterx = FALSE
    /\ xreb = [id |-> 0, ver |-> 0, aborted |-> FALSE, finished |-> FALSE, by |-> "none"]
    /\ filterGFN = {}
    /\ lomAcks = {}
    /\ sendQ = <<>>
    /\ lomLocks = [o \in Objs |-> 0]
    /\ acks = {}
    /\ store = S
    /\ peerStore = P
    /\ call = [c \in Calls |-> IdleCall]
    /\ store0 = S
    /\ sentOK = {}
    /\ acked = {}
    /\ timedOut = {}

\* every object is on one of the two targets
RebInit == \E S \in SUBSET Objs : RebInitWith(S, Objs \ S)

\* the steps of the RunGlobalReb calls CS
RunNext(CS) ==
    \/ \E c \in CS, id \in 1..MaxRebID : RunGlobalReb(c, id)
    \/ \E c \in CS, errs \in [1..3 -> BOOLEAN] : Precheck(c, errs)
    \/ \E c \in CS : Serialize(c)
    \/ \E c \in CS : GlobalRebInit(c)
    \/ \E c \in CS : GlobalRebSyncAndRun(c)
    \/ \E c \in CS, pushed \in BOOLEAN :
          \E r \in Replies(call[c].ver, globRebID) : RxReady(c, pushed, r)
    \/ \E c \in CS : JogDone(c)
    \/ \E c \in CS : WaitAckPoll(c)
    \/ \E c \in CS, pushed \in BOOLEAN :
          \E r \in Replies(call[c].ver, globRebID) : WaitAckSync(c, pushed, r)
    \/ \E c \in CS, ch \in RetxChoices(lomAcks) : Retransmit(c, ch)
    \/ \E c \in CS : ChangeStageFin(c)
    \/ \E c \in CS, pushed \in BOOLEAN :
          \E r \in Replies(call[c].ver, globRebID) : FinWait(c, pushed, r)
    \/ \E c \in CS, ord \in Orders(Tmap) :
          \E r \in Replies(call[c].ver, globRebID) : WaitQuiesce(c, ord, r)
    \/ \E c \in CS : GlobalRebFini(c)
    \/ NewSmap

\* the calls of a target that holds no object
RebNext == RunNext(Calls)

\* one call on a target that holds objects, and the traffic with the peer
MigNext ==
    \/ RunNext({"r1"})
    \/ \E o \in Objs, out \in WalkOutcomes : Walk("r1", o, out)
    \/ \E err \in {"nil", "io"} : ObjSentCallback(err)
    \/ \E a \in acks : RecvAck(a)
    \/ \E o \in Objs : RecvObj(o)
    \/ \E o \in Objs : GFN(o)

\* one call, in a cluster with or without erasure-coded buckets, that may be
\* aborted from outside, and the traffic with the peer
RunECNext ==
    \/ MigNext
    \/ \E id \in 1..MaxRebID, singleBck \in BOOLEAN :
          RunGlobalRebOn("r1", id, TRUE, singleBck)
    \/ ECNext({"r1"})
    \/ XactAbort

\* ------------------------------------------------------------------------
\* Specifications
\* ------------------------------------------------------------------------

\* the stream collector on its own
Init == GcInit /\ RebInitWith({}, {}) /\ PollIdle

SpecGC == Init /\ [][GcNext]_vars

\* the RunGlobalReb calls of a target in a cluster without objects
InitReb == GcInit /\ RebInitWith({}, {}) /\ PollIdle

SpecReb == InitReb /\ [][RebNext]_vars

\* one run of the rebalance with the objects spread over the two targets
InitMig == GcInit /\ RebInit /\ PollIdle

SpecMig == InitMig /\ [][MigNext]_vars

\* one run with the regular and the EC rebalance: the target holds o2, whose
\* HRW target is the peer
InitEC == GcInit /\ RebInitWith({"o2"}, {"o1"}) /\ PollIdle

SpecEC == InitEC /\ [][RunECNext]_vars

\* one status poll
InitPoll == GcInit /\ RebInitWith({}, {}) /\ PollInit

SpecPoll == InitPoll /\ [][Poll]_vars

\* one wait for push notifications
InitPush == GcInit /\ RebInitWith({}, {}) /\ PushInit

SpecPush == InitPush /\ [][PushWait]_vars

\* one pull of a peer's EC slice list
InitPull == GcInit /\ RebInitWith({}, {}) /\ PullInit

SpecPull == InitPull /\ [][PullNext]_vars

\* one run of the rebalance with the objects spread over the two targets, in
\* buckets of which any may be EC-enabled
WalkInit ==
    /\ pollIn = NoPoll
    /\ pollOut = NoPoll
    /\ push = NoPush
    /\ wt = newWaiter
    /\ pull = NoPull
    /\ mem = NoMem
    /\ ecBck \in SUBSET Objs
    /\ jg = NoJog
    /\ ecColl = FALSE
    /\ txn = NoTxn

InitWalk == GcInit /\ RebInit /\ WalkInit

SpecWalk == InitWalk /\ [][MigNext]_vars

\* ------------------------------------------------------------------------
\* The jogger and its sends (reb/global.go: globalRebRun, jog, walk)
\* ------------------------------------------------------------------------

\* the largest Rebalance.Multiplier and the most files of a mountpath
MaxMultiplier == 3

MaxFiles == 3

\* globalRebRun: the jogger has a semaphore of the size of the multiplier when
\* the multiplier is more than 1, and none (0) otherwise
NewSema(multiplier) == IF multiplier > 1 THEN multiplier ELSE 0

\* a jogger at its start: left files to walk, no send started, nothing of the
\* semaphore taken. busy: the sends in progress in their own goroutines; rel:
\* the goroutines whose send has returned and whose deferred Release is to run
JogInputs ==
    {[m |-> m, sema |-> NewSema(m), left |-> left, pc |-> "walk",
      held |-> 0, i |-> 0, busy |-> 0, rel |-> 0, started |-> 0, returned |-> 0] :
        m \in 0..MaxMultiplier, left \in 1..MaxFiles}

JogInit ==
    /\ pollIn = NoPoll
    /\ pollOut = NoPoll
    /\ push = NoPush
    /\ wt = newWaiter
    /\ pull = NoPull
    /\ mem = NoMem
    /\ ecBck = {}
    /\ jg \in JogInputs
    /\ ecColl = FALSE
    /\ txn = NoTxn

\* cmn.DynSemaphore.Acquire: blocks while all of the size is taken
CanAcquire(j) == j.held < j.sema

\* walk of a file that is to be sent: without a semaphore send is called in
\* the walking thread; with one, it is acquired and send runs in a goroutine
\* of its own
WalkSend ==
    /\ jg.pc = "walk" /\ jg.left > 0
    /\ IF jg.sema = 0
       THEN jg' = [jg EXCEPT !.pc = "send", !.left = @ - 1, !.started = @ + 1]
       ELSE /\ CanAcquire(jg)
            /\ jg' = [jg EXCEPT !.held = @ + 1, !.busy = @ + 1, !.left = @ - 1,
                                !.started = @ + 1]
    /\ UNCHANGED <<pollIn, pollOut, push, wt, pull, mem, ecBck, ecColl, txn, gcVars, rebVars>>

\* the send in the walking thread returns, to walk
SendInline ==
    /\ jg.pc = "send"
    /\ jg' = [jg EXCEPT !.pc = "walk", !.returned = @ + 1]
    /\ UNCHANGED <<pollIn, pollOut, push, wt, pull, mem, ecBck, ecColl, txn, gcVars, rebVars>>

\* a send in a goroutine of its own returns
SendReturns ==
    /\ jg.busy > 0
    /\ jg' = [jg EXCEPT !.busy = @ - 1, !.rel = @ + 1, !.returned = @ + 1]
    /\ UNCHANGED <<pollIn, pollOut, push, wt, pull, mem, ecBck, ecColl, txn, gcVars, rebVars>>

\* the deferred rj.sema.Release() of a goroutine whose send has returned
SemaRelease ==
    /\ jg.rel > 0
    /\ jg' = [jg EXCEPT !.rel = @ - 1, !.held = @ - 1]
    /\ UNCHANGED <<pollIn, pollOut, push, wt, pull, mem, ecBck, ecColl, txn, gcVars, rebVars>>

\* jog that returns when fs.Walk has returned (a mutant of jogAfterWalk)
jogAfterWalkNoWait(j) == "done"

\* jog when fs.Walk has returned: with a semaphore it goes on to acquire all
\* of it
jogAfterWalk(j) == IF j.sema # 0 THEN "acquire" ELSE "done"

\* fs.Walk returns: all the files are walked, or walk has returned an error
\* (a file that is skipped, or is not to be sent, is walked without a send)
WalkReturns(skip) ==
    /\ jg.pc = "walk"
    /\ jg.left = 0 \/ skip
    /\ jg' = [jg EXCEPT !.pc = jogAfterWalk(jg), !.left = 0, !.i = 0]
    /\ UNCHANGED <<pollIn, pollOut, push, wt, pull, mem, ecBck, ecColl, txn, gcVars, rebVars>>

\* jog: for i := 0; i < rj.sema.Size(); i++ { rj.sema.Acquire() }
JogAcquire ==
    /\ jg.pc = "acquire"
    /\ IF jg.i < jg.sema
       THEN /\ CanAcquire(jg)
            /\ jg' = [jg EXCEPT !.held = @ + 1, !.i = @ + 1]
       ELSE jg' = [jg EXCEPT !.pc = "release", !.i = 0]
    /\ UNCHANGED <<pollIn, pollOut, push, wt, pull, mem, ecBck, ecColl, txn, gcVars, rebVars>>

\* jog: for i := 0; i < rj.sema.Size(); i++ { rj.sema.Release() }, and its
\* return (rj.wg.Done())
JogRelease ==
    /\ jg.pc = "release"
    /\ IF jg.i < jg.sema
       THEN jg' = [jg EXCEPT !.held = @ - 1, !.i = @ + 1]
       ELSE jg' = [jg EXCEPT !.pc = "done"]
    /\ UNCHANGED <<pollIn, pollOut, push, wt, pull, mem, ecBck, ecColl, txn, gcVars, rebVars>>

JogNext ==
    \/ WalkSend
    \/ SendInline
    \/ SendReturns
    \/ SemaRelease
    \/ \E skip \in BOOLEAN : WalkReturns(skip)
    \/ JogAcquire
    \/ JogRelease

\* one jogger with its sends
InitJog == GcInit /\ RebInitWith({}, {}) /\ JogInit

SpecJog == InitJog /\ [][JogNext]_vars

\* ------------------------------------------------------------------------
\* The create-bucket transaction of the proxy (createBucket, undoCreateBucket)
\* ------------------------------------------------------------------------

\* the buckets and the concurrent callers of createBucket
Bcks == {"b1", "b2"}

Callers == {"p1", "p2"}

\* the locals of a createBucket call that has not started
IdleTxn ==
    [pc |-> "idle", bck |-> "b1", clone |-> [b \in Bcks |-> "none"],
     locks |-> 0, unlocks |-> 0, aborts |-> 0, ret |-> "none"]

\* the BMDs at the start: a bucket is absent ("none") or was created before
TxnInputs ==
    {[bmd |-> bmd, lock |-> "free", panic |-> FALSE, k |-> [c \in Callers |-> IdleTxn]] :
        bmd \in [Bcks -> {"none", "old"}]}

TxnInit ==
    /\ pollIn = NoPoll
    /\ pollOut = NoPoll
    /\ push = NoPush
    /\ wt = newWaiter
    /\ pull = NoPull
    /\ mem = NoMem
    /\ ecBck = {}
    /\ jg = NoJog
    /\ ecColl = FALSE
    /\ txn \in TxnInputs

\* p.owner.bmd.Lock() by the call c, which waits for the lock to be free
bmdLock(t, c) == [t EXCEPT !.lock = c, !.k[c].locks = @ + 1]

\* p.owner.bmd.Unlock(); the unlock of a mutex that is not locked is fatal
bmdUnlock(t, c) ==
    IF t.lock = "free" THEN [t EXCEPT !.panic = TRUE]
    ELSE [t EXCEPT !.lock = "free", !.k[c].unlocks = @ + 1]

\* createBucket, 1: lock and try add; a bucket that is there already makes
\* the call return ErrorBucketAlreadyExists
tryAdd(t, c, bck) ==
    LET t1 == bmdLock(t, c)
    IN  IF t1.bmd[bck] # "none"
        THEN [bmdUnlock(t1, c) EXCEPT !.k[c].bck = bck, !.k[c].pc = "returned",
                                      !.k[c].ret = "exists"]
        ELSE [t1 EXCEPT !.k[c].bck = bck, !.k[c].pc = "begin",
                        !.k[c].clone = [t1.bmd EXCEPT ![bck] = c]]

\* createBucket, 2 to 5, with the updated BMD put before the begin phase has
\* answered (a mutant of beginTxn)
beginTxnPutFirst(t, c, err) ==
    LET t1 == [t EXCEPT !.bmd = t.k[c].clone]
    IN  IF err THEN [bmdUnlock(t1, c) EXCEPT !.k[c].pc = "abort"]
        ELSE [bmdUnlock(t1, c) EXCEPT !.k[c].pc = "commit"]

\* createBucket, 2 to 5: the begin phase; when a target fails it the lock is
\* released and the abort is to be broadcast; otherwise the updated BMD is
\* put, the lock released and the BMD distributed
beginTxn(t, c, err) ==
    IF err THEN [bmdUnlock(t, c) EXCEPT !.k[c].pc = "abort"]
    ELSE [bmdUnlock([t EXCEPT !.bmd = t.k[c].clone], c) EXCEPT !.k[c].pc = "commit"]

\* createBucket, 3: the broadcast of the abort, and the return of the error
abortTxn(t, c) ==
    [t EXCEPT !.k[c].aborts = @ + 1, !.k[c].pc = "returned", !.k[c].ret = "err"]

\* createBucket, 6: the commit phase; when a target fails it the bucket is
\* to be rolled back
commitTxn(t, c, err) ==
    IF err THEN [t EXCEPT !.k[c].pc = "undo"]
    ELSE [t EXCEPT !.k[c].pc = "returned", !.k[c].ret = "nil"]

\* undoCreateBucket that leaves the BMD as it is (a mutant of undoCreateBucket)
undoCreateBucketKeeps(t, c) ==
    [bmdUnlock(bmdLock(t, c), c) EXCEPT !.k[c].pc = "returned", !.k[c].ret = "err"]

\* undoCreateBucket, and the return of the error: under the lock the bucket
\* is deleted from a clone of the BMD, which is put and distributed
undoCreateBucket(t, c) ==
    LET t1  == bmdLock(t, c)
        bck == t.k[c].bck
        t2  == IF t1.bmd[bck] = "none" THEN bmdUnlock(t1, c)
               ELSE bmdUnlock([t1 EXCEPT !.bmd = [t1.bmd EXCEPT ![bck] = "none"]], c)
    IN  [t2 EXCEPT !.k[c].pc = "returned", !.k[c].ret = "err"]

TryAdd(c, bck) ==
    /\ txn.k[c].pc = "idle"
    /\ txn.lock = "free"
    /\ txn' = tryAdd(txn, c, bck)
    /\ UNCHANGED <<pollIn, pollOut, push, wt, pull, mem, ecBck, jg, ecColl, gcVars, rebVars>>

BeginTxn(c, err) ==
    /\ txn.k[c].pc = "begin"
    /\ txn' = beginTxn(txn, c, err)
    /\ UNCHANGED <<pollIn, pollOut, push, wt, pull, mem, ecBck, jg, ecColl, gcVars, rebVars>>

AbortTxn(c) ==
    /\ txn.k[c].pc = "abort"
    /\ txn' = abortTxn(txn, c)
    /\ UNCHANGED <<pollIn, pollOut, push, wt, pull, mem, ecBck, jg, ecColl, gcVars, rebVars>>

CommitTxn(c, err) ==
    /\ txn.k[c].pc = "commit"
    /\ txn' = commitTxn(txn, c, err)
    /\ UNCHANGED <<pollIn, pollOut, push, wt, pull, mem, ecBck, jg, ecColl, gcVars, rebVars>>

UndoCreateBucket(c) ==
    /\ txn.k[c].pc = "undo"
    /\ txn.lock = "free"
    /\ txn' = undoCreateBucket(txn, c)
    /\ UNCHANGED <<pollIn, pollOut, push, wt, pull, mem, ecBck, jg, ecColl, gcVars, rebVars>>

TxnNext ==
    \/ \E c \in Callers, bck \in Bcks : TryAdd(c, bck)
    \/ \E c \in Callers, err \in BOOLEAN : BeginTxn(c, err)
    \/ \E c \in Callers : AbortTxn(c)
    \/ \E c \in Callers, err \in BOOLEAN : CommitTxn(c, err)
    \/ \E c \in Callers : UndoCreateBucket(c)

\* two concurrent createBucket calls of a proxy
InitTxn == GcInit /\ RebInitWith({}, {}) /\ TxnInit

SpecTxn == InitTxn /\ [][TxnNext]_vars

\* one decision of the EC code between memory and disk
InitMem == GcInit /\ RebInitWith({}, {}) /\ MemInit

SpecMem == InitMem /\ [][UseDisk]_vars

\* the EC waiter registry on its own
InitWaiter == GcInit /\ RebInitWith({}, {}) /\ PollIdle

SpecWaiter == InitWaiter /\ [][WaiterNext]_vars


\* ------------------------------------------------------------------------
\* Claims about the status polls (checked under SpecPoll)
\* ------------------------------------------------------------------------

\* the poll got an answer that unmarshals
Answered(p) == (~p.r.err1 \/ (~p.abrt /\ ~p.r.err2)) /\ ~p.r.bad

NewerPeer(p) ==
    \/ p.r.st.SmapVersion > p.ver
    \/ p.r.st.RebVersion > p.ver
    \/ p.r.st.GlobRebID > p.gid

\* C4: a status poll answered with a Smap version or a rebalance version greater
\* than the local run's, or with a globRebID greater than the local one, aborts
\* the local run before it returns, and returns not-ok to its caller.
C4_NewerPeerAborts ==
    (pollOut.done /\ Answered(pollIn) /\ NewerPeer(pollIn)) =>
        /\ pollOut.res.abort = "global"
        /\ pollOut.aborted
        /\ ~pollOut.res.ok

\* the peer runs a newer rebalance ID on an older Smap, and the poll has aborted the run
C4_Witness ==
    /\ pollOut.done
    /\ Answered(pollIn)
    /\ ~pollIn.abrt
    /\ pollIn.r.st.GlobRebID > pollIn.gid
    /\ pollIn.r.st.SmapVersion < pollIn.ver
    /\ pollIn.r.st.RebVersion < pollIn.ver
    /\ pollOut.aborted

\* ------------------------------------------------------------------------
\* Claims about the RunGlobalReb calls (checked under SpecReb)
\* ------------------------------------------------------------------------

\* the call is past the precheck and has not returned from globalRebFini
Active(c) == call[c].pc \notin {"idle", "precheck", "serialize", "returned"}

ActiveCalls == {c \in Calls : Active(c)}

\* C3: at most one run is active on a target, and it holds the semaphore from the
\* precheck until globalRebFini; a call that finds, in the precheck, a published
\* rebalance ID not smaller than its own, or a newer Smap, returns; and a call
\* that returns from the precheck leaves the stage, the streams and the marker
\* as they are.
C3_OneRunAtATime ==
    /\ [](Cardinality(ActiveCalls) <= 1 /\ semaCh = 1 - Cardinality(ActiveCalls))
    /\ [][\A c \in Calls :
            /\ (/\ call[c].pc = "serialize"
                /\ (globRebID >= call[c].id \/ tsmapVer > call[c].ver)
                /\ call'[c] # call[c])
               => call'[c].pc = "returned"
            /\ (call[c].pc \in {"precheck", "serialize"} /\ call'[c].pc = "returned")
               => UNCHANGED <<stage, streamsOpen, marker, semaCh, globRebID, xreb>>]_vars

\* a call with the ID of the active run has returned from the precheck
C3_Witness ==
    \E c \in Calls, d \in Calls :
        /\ Active(c)
        /\ call[d].pc = "returned"
        /\ call[d].id <= call[c].id
        /\ call[d].ver = call[c].ver
        /\ tsmapVer = call[c].ver
        /\ streamsOpen /\ marker

\* ------------------------------------------------------------------------
\* Claims about a run with objects (checked under SpecMig)
\* ------------------------------------------------------------------------

\* the last run ended without having been aborted
RunOK == xreb.finished /\ ~xreb.aborted

C8_OnlyAfterQuietRounds ==
    [][\A c \in Calls :
          (call[c].pc = "quiesce" /\ call'[c].pc = "fini" /\ ~call'[c].ab)
          => call[c].quiescent >= maxQuiet]_vars

\* C8, amended: waitQuiesce returns without abort either when the count of
\* consecutive rounds that found laterx unset has reached maxQuiet, or at once in
\* a round in which nodesQuiescent returns true (the target is quiescent and the
\* peer answers ok and Quiescent), whatever the count and laterx; a round that
\* does not return resets the count to zero if laterx was set and adds one if not.
C8_QuiesceExit ==
    [][\A c \in Calls, ord \in Orders(Tmap) :
          \A r \in Replies(call[c].ver, globRebID) :
             WaitQuiesce(c, ord, r) =>
                /\ (call'[c].pc = "fini" /\ ~call'[c].ab)
                   => \/ call[c].quiescent >= maxQuiet
                      \/ /\ isQuiescent
                         /\ r.st.Quiescent
                         /\ nodesQuiescent(ord, r, call[c], xreb).quiet
                /\ call'[c].pc = "quiesce"
                   => call'[c].quiescent = IF laterx THEN 0
                                           ELSE call[c].quiescent + 1]_vars

\* waitQuiesce has returned without abort from a round that found laterx set
C8_Witness ==
    \E c \in Calls :
        /\ call[c].pc = "fini"
        /\ ~call[c].ab
        /\ call[c].quiescent = 0

\* C9: the wait-ack loop is left only by an aborted run or when retransmit has
\* resent nothing, and the stage leaves wait-ack only for fin and only after that.
C9_WaitAckLeave ==
    [][/\ \A c \in Calls :
             (call[c].pc \in {"wack", "wsync", "retx"} /\ call'[c].pc = "fin")
             => \/ xreb'.aborted
                \/ call[c].pc = "retx" /\ call'[c].cnt = 0
       /\ (stage = rebStageWaitAck /\ stage' # stage)
          => /\ stage' = rebStageFin
             /\ \E c \in Calls : /\ call[c].pc = "fin"
                                 /\ xreb.aborted \/ call[c].cnt = 0]_vars

\* the stage is fin after a run that sent an object, dropped its entry in
\* retransmit and was not aborted
C9_Witness ==
    /\ stage = rebStageFin
    /\ ~xreb.aborted
    /\ timedOut # {}
    /\ lomAcks = {}

\* C10: an object has a pending-ack entry iff the jogger handed it to
\* streams.Send, Send returned nil, and it was neither acknowledged nor dropped
\* by retransmit; an object whose Send failed, or that was never sent, has none.
C10_PendingAcks ==
    lomAcks = sentOK \ (acked \cup timedOut)

\* an object was sent and waits for its ACK, which is in flight
C10_Witness ==
    \E a \in acks : a.obj \in lomAcks /\ a.obj \in sentOK /\ a.id = globRebID

\* the frames of object o that wait for their completion callback
FramesOf(o) == {i \in 1..Len(sendQ) : sendQ[i].obj = o}

\* C11: the read lock that send takes on a LOM is released exactly once: a lock
\* is held on an object exactly for each of its frames that the stream accepted
\* and whose completion callback has not run yet; a send that returns early
\* (load, checksum or open error, replica copy, failing stream send) has
\* released its lock when it returns; no lock is released twice, none stays held.
C11_LockReleasedOnce ==
    \A o \in Objs : lomLocks[o] = Cardinality(FramesOf(o))

\* o2 was sent, its frame completed and its ACK is pending, no lock is held,
\* and the streams are still open (the callback released the lock, not the fini)
C11_Witness ==
    /\ "o2" \in sentOK
    /\ "o2" \in lomAcks
    /\ sendQ = <<>>
    /\ lomLocks["o2"] = 0
    /\ streamsOpen

\* C12: a run that passed precheck and init returns only from globalRebFini,
\* whether the traversal succeeded, failed or the run was aborted; globalRebFini
\* closes the streams (their queue is drained), resets the GFN filter, sets the
\* stage to done and hands the semaphore back, once: with no run active the
\* semaphore holds its one token.
C12_EndsInFini ==
    /\ [](semaCh \in {0, 1}
          /\ (ActiveCalls = {} =>
                 /\ semaCh = 1
                 /\ ~streamsOpen
                 /\ filterGFN = {}
                 /\ stage \in {rebStageInactive, rebStageDone}))
    /\ [][\A c \in Calls :
            (Active(c) /\ call'[c].pc = "returned") =>
                /\ call[c].pc = "fini"
                /\ semaCh = 0 /\ semaCh' = 1
                /\ ~streamsOpen' /\ sendQ' = <<>>
                /\ filterGFN' = {}
                /\ stage' = rebStageDone]_vars

\* a run whose traversal failed on an object and that was not aborted has
\* returned: the stage is done and the semaphore is free
C12_Witness ==
    /\ call["r1"].pc = "returned"
    /\ xreb.finished
    /\ ~xreb.aborted
    /\ "o2" \in store /\ "o2" \notin sentOK
    /\ stage = rebStageDone
    /\ semaCh = 1

C15_StageForward ==
    [][\/ stage' >= stage
       \/ /\ stage' = rebStageInit
          /\ \E c \in Calls : call[c].pc = "init" /\ call'[c].pc = "sync"]_vars

\* the regular rebalance of a run has sent an object and ended, while the EC
\* rebalance that runs in parallel has reached its last sub-stage
C15_Witness ==
    /\ stage = rebStageECCleanup
    /\ call["r1"].pc = "join"
    /\ call["r1"].ecpc = "waitcleanup"
    /\ ~call["r1"].singleBck
    /\ ~call["r1"].rebErr
    /\ sentOK # {}

\* C16: when a tick finds a registered stream terminated and its ticks, less one,
\* at or below zero, the stream is removed from the map, its work queue is closed
\* and emptied, and the completion callback of every frame that was queued is
\* invoked with the stored termination error, or with "unknown reason" if none
\* was stored.
C16_TerminatedDrained ==
    [][(Tick /\ gcState' = "running") =>
        \A l \in Lids :
            LET s == streams[l]
                e == IF term[s].err = "nil" THEN "unknown" ELSE term[s].err
            IN  (/\ s # NoStream
                 /\ term[s].terminated
                 /\ ticks[s] - 1 <= 0)
                => /\ streams'[l] = NoStream
                   /\ closed'[s]
                   /\ workCh'[s] = <<>>
                   /\ term'[s].err = e
                   /\ \A i \in 1..Len(workCh[s]) :
                         workCh[s][i] # tickMarker =>
                            cbs'[workCh[s][i]].errs = Append(cbs[workCh[s][i]].errs, e)]_vars

\* a stream that terminated without an error was removed by a tick with a frame
\* still queued: the frame's callback got "unknown reason"
C16_Witness ==
    \E k \in 1..Len(cbs) :
        /\ cbs[k].errs = <<"unknown">>
        /\ closed[cbs[k].s]
        /\ term[cbs[k].s].err = "unknown"
        /\ streams[lidOf(cbs[k].s)] # cbs[k].s

\* C17: registering a stream, removing it, and registering a stream with the same
\* ID again is accepted and leaves the collector as a single fresh registration
\* does: the new stream is the map's entry of the ID, and the ID is in the heap
\* once, with the index of its position, for every interleaving of the control
\* events with the ticks.
C17_ReRegister ==
    [][(/\ Ctrl
        /\ Head(ctrlCh).add
        /\ \E p \in created : p < Head(ctrlCh).s /\ lidOf(p) = lidOf(Head(ctrlCh).s))
       => LET s == Head(ctrlCh).s
          IN  /\ gcState' = "running"
              /\ streams'[lidOf(s)] = s
              /\ \E i \in 1..Len(heap') :
                    /\ heap'[i] = s
                    /\ index'[s] = i - 1
                    /\ \A j \in 1..Len(heap') : lidOf(heap'[j]) = lidOf(s) => j = i]_vars

\* C18: when the collector is stopped, every stream registered at that moment is
\* stopped and the stream map is cleared before the collector's loop returns:
\* the step that ends the loop stops them all, and a collector whose loop has
\* returned has no stream in its map.
C18_StopClearsMap ==
    /\ [](gcState = "stopped" => \A l \in Lids : streams[l] = NoStream)
    /\ [][(gcState = "running" /\ gcState' = "stopped") =>
            /\ \A l \in Lids : streams[l] # NoStream => stopped'[streams[l]]
            /\ \A l \in Lids : streams'[l] = NoStream]_vars

\* the collector was stopped with two streams registered: both were stopped
C18_Witness ==
    /\ gcState = "stopped"
    /\ stopped[2]
    /\ \E o \in {1, 3} : stopped[o]
    /\ \A l \in Lids : streams[l] = NoStream

\* C19: every wait loop of the orchestrator (rxReady, the wait-ack loop,
\* waitFinExtended, waitQuiesce, waitForPushReqs, waitStage under
\* waitNamespace, waitECLocalReb and waitECCleanup, waitECData, waitEvent) tests
\* the abort flag in each round: a round that starts with the run's abort flag
\* set is the loop's last. waitQuiesce tests its own copy of the flag, read at
\* the end of each round: it takes the flag over in that round, if it goes on,
\* and leaves before the next one.
C19_WaitLoopsHonourAbort ==
    [][\A c \in Calls :
        /\ xreb.aborted =>
              /\ (/\ call[c].pc = "rxready"
                  /\ \E pushed \in BOOLEAN, r \in Replies(call[c].ver, globRebID) :
                        RxReady(c, pushed, r)) => call'[c].pc # "rxready"
              /\ WaitAckPoll(c) => call'[c].pc # "wack"
              /\ (/\ call[c].pc = "wsync"
                  /\ \E pushed \in BOOLEAN, r \in Replies(call[c].ver, globRebID) :
                        WaitAckSync(c, pushed, r)) => call'[c].pc # "wsync"
              /\ (/\ call[c].pc = "finwait"
                  /\ \E pushed \in BOOLEAN, r \in Replies(call[c].ver, globRebID) :
                        FinWait(c, pushed, r)) => call'[c].pc # "finwait"
              /\ (/\ call[c].pc = "quiesce"
                  /\ \E ord \in Orders(Tmap), r \in Replies(call[c].ver, globRebID) :
                        WaitQuiesce(c, ord, r))
                    => call'[c].pc = "fini" \/ call'[c].ab
              /\ (\E cnt \in 0..(Cardinality(Tmap) - 1) : PushReqs(c, cnt))
                    => call'[c].ecpc # call[c].ecpc
              /\ (/\ call[c].ecpc \in {"waitns", "waitlocal", "waitcleanup"}
                  /\ \E pushed \in BOOLEAN, r \in Replies(call[c].ver, globRebID) :
                        WaitStage(c, pushed, r)) => call'[c].ecpc # call[c].ecpc
              /\ (/\ call[c].ecpc = "waitdata"
                  /\ \E have \in BOOLEAN, rp \in PullReplies :
                        WaitECData(c, have, rp)) => call'[c].ecpc # "waitdata"
              /\ (\E cb \in BOOLEAN : BatchWait(c, cb)) => call'[c].ecpc # "batch"
        /\ call[c].ab =>
              ((/\ call[c].pc = "quiesce"
                /\ \E ord \in Orders(Tmap), r \in Replies(call[c].ver, globRebID) :
                      WaitQuiesce(c, ord, r)) => call'[c].pc = "fini")]_vars

\* a run aborted from outside while its EC rebalance had published the cleanup
\* stage: the wait for the peer to reach that stage has returned false
C19_Witness ==
    /\ xreb.by = "local"
    /\ ~xreb.finished
    /\ stage = rebStageECCleanup
    /\ call["r1"].ecpc = "failed"

\* the peer's answer has the Smap and rebalance versions and the rebalance ID of
\* the local run, and says that the peer has aborted
SamePeerAborted(p) ==
    /\ p.r.st.SmapVersion = p.ver
    /\ p.r.st.RebVersion = p.ver
    /\ p.r.st.GlobRebID = p.gid
    /\ p.r.st.Aborted

\* C20: an abort caused by a peer that reports the local globRebID with
\* Aborted = true is local only: the xaction is aborted with Abort, nothing is
\* broadcast, and no other answer takes that path; an abort caused by a newer
\* Smap on the peer goes through abortGlobal, the broadcasting path, whatever
\* else the peer reports.
C20_AbortPaths ==
    (pollOut.done /\ Answered(pollIn)) =>
        /\ SamePeerAborted(pollIn) <=> pollOut.res.abort = "local"
        /\ (\/ pollIn.r.st.SmapVersion > pollIn.ver
            \/ pollIn.r.st.RebVersion > pollIn.ver) => pollOut.res.abort = "global"
        /\ pollOut.res.abort # "none" => pollOut.aborted

\* a run that was not aborted polled a peer that has aborted the same
\* rebalance: the poll has aborted the run locally
C20_Witness ==
    /\ pollOut.done
    /\ Answered(pollIn)
    /\ ~pollIn.abrt
    /\ SamePeerAborted(pollIn)
    /\ pollOut.res.abort = "local"
    /\ pollOut.aborted
    /\ ~pollOut.res.ok

\* the answer unmarshals and reports nothing newer than the run, and an older
\* Smap version, rebalance version or rebalance ID
StaleReply(r, ver, gid) ==
    /\ ~r.err1
    /\ ~r.bad
    /\ r.st.SmapVersion <= ver
    /\ r.st.RebVersion <= ver
    /\ r.st.GlobRebID <= gid
    /\ (r.st.SmapVersion < ver \/ r.st.RebVersion < ver \/ r.st.GlobRebID < gid)

\* C21: when a polled peer reports an older Smap version or an older globRebID,
\* the local run is not aborted and the poller keeps polling that peer, the
\* stale reply consuming nothing of its wait budget: a round of waitStage or of
\* waitFinExtended that is within its budget, in a run not aborted, with no
\* push notification and a stale reply, leaves the run not aborted, the loop
\* going and the time waited no greater.
C21_StalePeerKeepsPolling ==
    [][\A c \in Calls : \A r \in Replies(call[c].ver, globRebID) :
        (~xreb.aborted /\ StaleReply(r, call[c].ver, globRebID)) =>
            /\ (call[c].ecwt < maxwt /\ WaitStage(c, FALSE, r)) =>
                  /\ ~xreb'.aborted
                  /\ call'[c].ecpc = call[c].ecpc
                  /\ call'[c].ecwt <= call[c].ecwt
            /\ (call[c].curwt < maxwt /\ (WaitAckSync(c, FALSE, r) \/ FinWait(c, FALSE, r))) =>
                  /\ ~xreb'.aborted
                  /\ call'[c].pc = call[c].pc
                  /\ call'[c].curwt <= call[c].curwt]_vars

\* C22: when the status call to a peer fails it is retried exactly once, after
\* one retry sleep, unless the run is found aborted after that sleep (the poll
\* then returns not-ok at once); if the retry fails too, or the reply does not
\* unmarshal, the run is aborted and the poll returns not-ok; a retry that
\* succeeds is treated as a first answer is.
C22_RetryOnce ==
    pollOut.done =>
        LET r   == pollIn.r
            res == pollOut.res
        IN  /\ res.calls = IF r.err1 /\ ~pollIn.abrt THEN 2 ELSE 1
            /\ (r.err1 /\ pollIn.abrt) => (~res.ok /\ res.abort = "none")
            /\ (r.err1 /\ ~pollIn.abrt /\ r.err2) =>
                  (~res.ok /\ res.abort = "global" /\ pollOut.aborted)
            /\ ((~r.err1 \/ (~pollIn.abrt /\ ~r.err2)) /\ r.bad) =>
                  (~res.ok /\ res.abort = "global" /\ pollOut.aborted)
            /\ (r.err1 /\ ~pollIn.abrt /\ ~r.err2 /\ ~r.bad /\ ~r.st.Aborted
                  /\ r.st.SmapVersion = pollIn.ver /\ r.st.RebVersion = pollIn.ver
                  /\ r.st.GlobRebID = pollIn.gid) =>
                  (res.abort = "none" /\ (res.ok <=> r.st.Stage >= pollIn.desiredStage))

\* the first call failed, the retry was answered by a peer at the desired stage:
\* the poll returned ok after two calls
C22_Witness ==
    /\ pollOut.done
    /\ pollIn.r.err1
    /\ ~pollIn.r.err2
    /\ ~pollIn.abrt
    /\ pollOut.res.calls = 2
    /\ pollOut.res.ok

\* C23: in waitQuiesce one non-quiet observation (the activity flag laterx found
\* set) resets the count of consecutive quiet rounds to zero, a quiet one adds
\* one; the count is zero when the loop is entered, each round clears the flag
\* it has read, and nothing else changes the count. So the count is always the
\* number of the most recent consecutive rounds without recorded activity.
C23_QuietCount ==
    [][\A c \in Calls :
        /\ (call[c].pc # "quiesce" /\ call'[c].pc = "quiesce") => call'[c].quiescent = 0
        /\ (call[c].pc = "quiesce" /\ call'[c].quiescent # call[c].quiescent) =>
              /\ call[c].quiescent < maxQuiet
              /\ ~call[c].ab
              /\ call'[c].quiescent = IF laterx THEN 0 ELSE call[c].quiescent + 1
              /\ ~laterx'
        /\ (call[c].pc = "quiesce" /\ call'[c].pc = "quiesce"
              /\ call[c].quiescent > 0 /\ laterx /\ ~laterx') => call'[c].quiescent = 0]_vars

\* a round of waitQuiesce was counted as quiet, and an object or an ACK has
\* arrived since: the activity flag is set for the next round to find
C23_Witness ==
    /\ call["r1"].pc = "quiesce"
    /\ call["r1"].quiescent = 1
    /\ ~call["r1"].ab
    /\ laterx


\* ------------------------------------------------------------------------
\* Claims about the wait for push notifications (checked under SpecPush)
\* ------------------------------------------------------------------------

\* the targets other than this one, and those of them that have reached the stage
PushPeers(p) == p.n - 1

PushReached(p) == p.n - 1 - p.cnt

\* the wait returns from its test of the notifications: not timed out, not aborted
ReturnsOnCount == ~push.ret /\ push'.ret /\ push.ecwt < maxPushWait /\ ~push.abrt

\* C24 as stated: when waitForPushReqs waits for a stage after EC-namespace and
\* returns neither on its timeout nor on an abort, at least ceil(|peers|/2) + 1
\* of the other targets have reached the stage
C24_PushQuorumCeil ==
    [][(ReturnsOnCount /\ push.stg > rebStageECNamespace)
           => PushReached(push) >= (PushPeers(push) + 1) \div 2 + 1]_vars

\* C24, amended: waitForPushReqs returns false once it has waited its timeout,
\* true in a round that finds the xaction aborted, and otherwise, for a stage
\* after EC-namespace, keeps waiting while fewer than floor(|peers|/2) + 1 of
\* the other targets have reached the stage and returns whether all of them
\* have as soon as that many have; for a stage up to EC-namespace it returns
\* in its first round whether all of them have
C24_PushQuorum ==
    [][~push.ret =>
          /\ push.ecwt >= maxPushWait => (push'.ret /\ ~push'.val)
          /\ (push.ecwt < maxPushWait /\ push.abrt) => (push'.ret /\ push'.val)
          /\ (push.ecwt < maxPushWait /\ ~push.abrt) =>
                /\ push'.ret <=> (\/ push.stg <= rebStageECNamespace
                                  \/ PushReached(push) >= PushPeers(push) \div 2 + 1)
                /\ push'.ret => (push'.val <=> push.cnt = 0)
                /\ push.stg <= rebStageECNamespace => push.ecwt = 0
                /\ ~push'.ret => push'.ecwt = push.ecwt + 1]_vars

\* the wait for EC-detect in a cluster of four targets returned false with two
\* of the three other targets in the stage
C24_Witness ==
    /\ push.ret /\ push # NoPush
    /\ push.n = 4 /\ push.stg = rebStageECDetect
    /\ push.cnt = 1 /\ push.ecwt = 0 /\ ~push.abrt /\ ~push.val


\* ------------------------------------------------------------------------
\* Claims about the EC waiter registry (checked under SpecWaiter)
\* ------------------------------------------------------------------------

HasWaiter(w, uid, sliceID) == \E c \in w.cts : c.uid = uid /\ c.sliceID = sliceID

\* the objects of the batch of rebObjs that starts at position batchID (from 0)
BatchObjs(batchID) == {rebObjs[i + 1] : i \in BatchPositions(Len(rebObjs), batchID)}

\* C25: lookupCreate(uid, slot) returns a handle no other (uid, slot) has, and
\* the same handle when it is called again for the same pair; the outstanding
\* counter grows by one when the waiter is created and is unchanged by the
\* repeated call
C25_LookupCreate ==
    \A uid \in 1..NumObjs, sliceID \in SliceIDs :
        LET r1 == lookupCreate(wt, uid, sliceID)
            r2 == lookupCreate(r1.wt, uid, sliceID)
        IN  /\ r2.ct = r1.ct
            /\ r2.wt = r1.wt
            /\ HasWaiter(wt, uid, sliceID) => r1.wt = wt
            /\ ~HasWaiter(wt, uid, sliceID) =>
                   /\ r1.wt.waitFor = wt.waitFor + 1
                   /\ \A c \in wt.cts : c.h # r1.ct
                   /\ wt.cts \subseteq r1.wt.cts
            /\ \A c \in r1.wt.cts :
                   c.h = r1.ct <=> (c.uid = uid /\ c.sliceID = sliceID)

\* two slots of one object and a slot of another have their waiters, all outstanding
C25_Witness ==
    /\ Cardinality(wt.cts) = 3
    /\ Cardinality(wtObjs(wt)) = 2
    /\ wt.waitFor = 3
    /\ wt.allocs = 3

C27_DropsFirst ==
    \A limit \in 0..NumObjs :
        cleanupBatch(wt, rebObjs, limit).cts
            = {c \in wt.cts : ~\E i \in 1..limit : rebObjs[i] = c.uid}

\* C27, amended: cleanupBatch(objs, start) drops every waiter record of the
\* objects of the batch that starts at position start, which are ecRebBatchSize
\* objects, or those that are left of the list when they are fewer, and changes
\* nothing else of the registry
C27_DropsBatch ==
    \A start \in 0..NumObjs :
        LET w2 == cleanupBatch(wt, rebObjs, start)
            n  == IF NumObjs - start < ecRebBatchSize THEN NumObjs - start
                  ELSE ecRebBatchSize
        IN  /\ Cardinality(BatchObjs(start)) = n
            /\ w2.cts = {c \in wt.cts : c.uid \notin BatchObjs(start)}
            /\ Cardinality(wtObjs(w2))
                   = Cardinality(wtObjs(wt)) - Cardinality(wtObjs(wt) \cap BatchObjs(start))
            /\ w2.waitFor = wt.waitFor /\ w2.allocs = wt.allocs

\* three objects had a waiter; the record of the one in the batch in the middle
\* of the list is dropped, the first and the last object keep theirs
C27_Witness ==
    /\ wtObjs(wt) = {1, NumObjs}
    /\ Cardinality(wt.cts) = 2
    /\ wt.allocs = 3

\* C28: cleanupBatch(objs, n) with n greater than len(objs) leaves the registry
\* as it is
C28_PastEndNoOp ==
    \A n \in (NumObjs + 1)..(NumObjs + ecRebBatchSize + 1) :
        cleanupBatch(wt, rebObjs, n) = wt

\* the first and the last object of the list have waiters, one of them two
C28_Witness ==
    /\ wtObjs(wt) = {1, NumObjs}
    /\ Cardinality(wt.cts) = 3

\* C29: cleanupBatch(objs, start) with start < len(objs) removes exactly the
\* objects at the positions start .. min(start + ecRebBatchSize, len(objs)) - 1;
\* the waiters of every other object stay, and lookupCreate for such an object
\* returns the waiter it had and adds no object to the registry
C29_ExactBatch ==
    \A start \in 0..(NumObjs - 1) :
        LET w2   == cleanupBatch(wt, rebObjs, start)
            last == IF start + ecRebBatchSize < NumObjs THEN start + ecRebBatchSize
                    ELSE NumObjs
            gone == {rebObjs[i + 1] : i \in start..(last - 1)}
        IN  /\ wtObjs(w2) = wtObjs(wt) \ gone
            /\ \A c \in wt.cts : c.uid \notin gone =>
                   /\ c \in w2.cts
                   /\ lookupCreate(w2, c.uid, c.sliceID).ct = c.h
                   /\ \A sliceID \in SliceIDs :
                          wtObjs(lookupCreate(w2, c.uid, sliceID).wt) = wtObjs(w2)

\* the first two objects and the last had a waiter, the record of the last was
\* dropped by a batch at the end of the list
C29_Witness ==
    /\ wtObjs(wt) = {1, 2}
    /\ Cardinality(wt.cts) = 2
    /\ wt.allocs = 3
    /\ wt.waitFor = 3


\* ------------------------------------------------------------------------
\* Claims about the pull of the EC slice lists (checked under SpecPull)
\* ------------------------------------------------------------------------

\* the round of waitECData that starts in the current state makes the pull request
PullAsks ==
    /\ ~pull.ret
    /\ pull.ecwt < maxwt
    /\ ~pull.x.aborted
    /\ ~(pull.siStage >= rebStageECDetect /\ pull.nd.ok)

\* C30: the endpoint answers 202 while the stage of its node is before
\* EC-detect, 204 when the stage is EC-detect or later and the node has no list
\* of local slices, and 200 with the list otherwise; the puller that gets 202
\* records nothing and asks again after its sleep, the puller that gets 204 or
\* 200 with a list records the peer's slices (none on 204) and the peer's stage
\* EC-detect, and nothing is recorded on any other reply
C30_ECDataStatus ==
    /\ [](LET e == GlobECDataStatus(pull.stage, pull.local)
          IN  /\ e.status = StatusAccepted <=> pull.stage < rebStageECDetect
              /\ e.status = StatusNoContent
                    <=> (pull.stage >= rebStageECDetect /\ ~pull.local.ok)
              /\ e.status = StatusOK
                    <=> (pull.stage >= rebStageECDetect /\ pull.local.ok)
              /\ e.status = StatusOK
                    => Unmarshal(e.body) = [err |-> FALSE, slices |-> pull.local.slices])
    /\ [][\A err \in BOOLEAN, damaged \in BOOLEAN :
             PullData(err, damaged) =>
                LET rp == RebalanceNamespace(GlobECDataStatus(pull.stage, pull.local),
                                             err, damaged)
                    same == pull'.nd = pull.nd /\ pull'.siStage = pull.siStage
                IN  /\ (PullAsks /\ ~err /\ rp.status = StatusAccepted) =>
                          (~pull'.ret /\ pull'.ecwt = pull.ecwt + 1 /\ same)
                    /\ (PullAsks /\ ~err /\ rp.status = StatusNoContent) =>
                          /\ pull'.ret /\ pull'.ok
                          /\ pull'.nd = NodeData({})
                          /\ pull'.siStage = rebStageECDetect
                    /\ (PullAsks /\ ~err /\ rp.status = StatusOK /\ ~damaged) =>
                          /\ pull'.ret /\ pull'.ok
                          /\ pull'.nd = NodeData(pull.local.slices)
                          /\ pull'.siStage = rebStageECDetect
                    /\ ~same => (/\ PullAsks /\ ~err
                                 /\ rp.status \in {StatusOK, StatusNoContent})]_vars

\* the peer answered 202 in the stage EC-namespace and, in the stage EC-detect
\* with no local slices, 204 to the next request: the puller has recorded an
\* empty list and the stage
C30_Witness ==
    /\ pull.ret /\ pull # NoPull
    /\ pull.ok /\ ~pull.x.aborted
    /\ pull.ecwt = 1
    /\ ~pull.local.ok
    /\ pull.nd = NodeData({})
    /\ pull.siStage = rebStageECDetect


\* ------------------------------------------------------------------------
\* Claims about the EC code's use of the disk (checked under SpecMem)
\* ------------------------------------------------------------------------

\* C31 as stated: the EC code uses the disk exactly when the memory pressure is
\* high or worse and the size is at least 50 MiB
C31_DiskIffHighAndLarge ==
    mem.done => (mem.disk <=> (mem.pressure >= MemPressureHigh
                                 /\ mem.objSize >= objSizeHighMem))

\* C31, amended: the EC code uses the disk exactly when the memory pressure is
\* extreme or the memory is exhausted, whatever the size, or the pressure is
\* high and the size is more than 50 MiB
C31_DiskByPressure ==
    mem.done => (mem.disk <=> (\/ mem.pressure >= MemPressureExtreme
                               \/ (mem.pressure = MemPressureHigh
                                      /\ mem.objSize > objSizeHighMem)))

\* under extreme pressure a small object goes to the disk
C31_Witness ==
    /\ mem.done /\ mem # NoMem
    /\ mem.pressure = MemPressureExtreme
    /\ mem.objSize = 1
    /\ mem.disk


\* ------------------------------------------------------------------------
\* Claims about the wait for the fin stage (checked under SpecMig)
\* ------------------------------------------------------------------------

\* C32: waitFinExtended reports the peer OK only if the peer has reached the
\* stage fin, by its push notification or by the status it answers, or the peer
\* answers the stage wait-ack with a status that does not list this node among
\* the targets it waits for; it never does for a peer in an earlier stage
C32_FinOnlyAfterFin ==
    \A c \in Calls :
        call[c].pc \in {"wsync", "finwait"} =>
            \A pushed \in BOOLEAN, r \in Replies(call[c].ver, globRebID) :
                LET w == waitFinExtended(call[c], xreb, pushed, r)
                IN  (w.ret /\ w.ok) =>
                        \/ pushed
                        \/ /\ ~r.err1 /\ ~r.bad
                           /\ \/ r.st.Stage >= rebStageFin
                              \/ r.st.Stage = rebStageWaitAck /\ Self \notin r.st.Tmap


\* ------------------------------------------------------------------------
\* Claims about the jogger's walk (checked under SpecWalk)
\* ------------------------------------------------------------------------

\* the step hands o to the streams and leaves it with a pending-ack entry
SentWithAck(o) ==
    /\ Len(sendQ') = Len(sendQ) + 1
    /\ sendQ'[Len(sendQ')] = [obj |-> o, id |-> globRebID]
    /\ o \in lomAcks'

\* the bucket of o is not EC-enabled, its HRW target is another target and it
\* is not flagged in the GFN filter
Migrates(o) == ~ECEnabled(o) /\ HrwTarget(o) # Self /\ o \notin filterGFN

ReachedECDetect == pull.siStage >= rebStageECDetect /\ pull.nd.ok

\* C34: a peer counts as having reached EC-detect only when its recorded stage
\* is at least EC-detect and its slices are stored here: nodesNotInStage counts
\* it as missing otherwise, and a round of waitECData of a run that is not
\* aborted returns true without using the answer of a pull request exactly
\* under that conjunction
C34_ReachedNeedsData ==
    /\ nodesNotInStage(Tmap, StagesOf(pull.siStage, rebStageECDetect),
                       NodesOf(pull.nd), rebStageECDetect)
         = IF ReachedECDetect THEN 0 ELSE 1
    /\ (~pull.ret /\ ~pull.x.aborted /\ pull.ecwt < maxwt) =>
          (ReachedECDetect <=>
             \A rp \in PullReplies :
                LET w == waitECData([ecwt |-> pull.ecwt], pull.x, pull.nd,
                                    pull.siStage, rp)
                IN  w.ret /\ w.ok /\ w.nd = pull.nd /\ w.siStage = pull.siStage)

\* the peer has notified EC-detect but its slices are not here: a round of
\* waitECData has asked for them, got a damaged body and goes on asking
C34_Witness ==
    /\ ~pull.ret
    /\ pull.ecwt = 1
    /\ pull.siStage = rebStageECDetect
    /\ pull.nd = NoNodeData
    /\ pull.local = NodeData({"s1"})
    /\ ~pull.x.aborted

\* ------------------------------------------------------------------------
\* Claims about the concurrency of a jogger (checked under SpecJog)
\* ------------------------------------------------------------------------

\* C35: with a multiplier m > 1 at most m sends of the jogger are in progress
\* at a time and jog returns only after every send it started has returned;
\* with m <= 1 a send is in progress only in the walking thread, one at a time
C35_BoundedSends ==
    /\ jg.m > 1 => (jg.started - jg.returned = jg.busy /\ jg.busy <= jg.m)
    /\ jg.m <= 1 =>
          /\ jg.busy = 0
          /\ jg.started - jg.returned = (IF jg.pc = "send" THEN 1 ELSE 0)
    /\ jg.pc = "done" => jg.started = jg.returned

\* the multiplier is 2, two sends are in progress and a file is left to walk
C35_Witness ==
    /\ jg.pc = "walk"
    /\ jg.m = 2
    /\ jg.busy = 2
    /\ jg.left = 1

\* ------------------------------------------------------------------------
\* Claims about the result of a status poll (checked under SpecPoll)
\* ------------------------------------------------------------------------

\* the reply of the polled target as checkGlobStatus has it: a Health call has
\* answered and the answer is the JSON of a status
PollAnswered ==
    /\ ~pollIn.r.err1 \/ (~pollIn.abrt /\ ~pollIn.r.err2)
    /\ ~pollIn.r.bad

\* C36: checkGlobStatus returns ok=true only if the reply has the Smap version
\* and the rebalance version of the local run's Smap, the local globRebID,
\* Aborted=false and a stage at or beyond the desired one, and ok=false in
\* every other case
C36_OkOnlyInSync ==
    pollOut # NoPoll =>
        (pollOut.res.ok <=>
            /\ PollAnswered
            /\ pollIn.r.st.SmapVersion = pollIn.ver
            /\ pollIn.r.st.RebVersion = pollIn.ver
            /\ pollIn.r.st.GlobRebID = pollIn.gid
            /\ ~pollIn.r.st.Aborted
            /\ pollIn.r.st.Stage >= pollIn.desiredStage)

\* a target in wait-ack, in sync with the local run, is polled for the stage
\* traverse: ok=true
C36_Witness ==
    /\ pollOut # NoPoll
    /\ pollOut.res.ok
    /\ ~pollIn.r.err1
    /\ pollIn.r.st.Stage = rebStageWaitAck
    /\ pollIn.desiredStage = rebStageTraverse
    /\ pollIn.r.st.GlobRebID = pollIn.gid

\* ------------------------------------------------------------------------
\* Claims about the heap and the map of the collector (checked under SpecGC)
\* ------------------------------------------------------------------------

\* the streams in the heap of the collector
InHeap == {heap[i] : i \in 1..Len(heap)}

\* the streams in the map of the collector
InMap == {streams[l] : l \in Lids} \ {NoStream}

\* C37: in every state of the running collector every stream in the heap is
\* also in the stream map: a stream that a tick deletes from the map is no
\* longer in the heap
C37_HeapInMap == gcState = "running" => InHeap \subseteq InMap

\* C38: the assertion ticks >= 0 of collector.update never fails: with an idle
\* timeout of a tick or more, every active stream that a tick of the running
\* collector may decrement has a tick left, and no tick ends in a failed
\* assertion
C38_TicksLeft ==
    /\ [](gcState = "running" =>
            \A s \in InMap :
               /\ idleTicks[s] >= 1
               /\ (~term[s].terminated /\ sessST[s] = "active") => ticks[s] >= 1)
    /\ [][(gcState = "running" /\ gcState' = "panic") => ctrlCh' # ctrlCh]_vars

\* a tick has decremented an active stream to 0 and, as frames were posted,
\* reset its ticks and left it active
C38_Witness ==
    /\ gcState = "running"
    /\ streams["a"] = 1
    /\ ~term[1].terminated
    /\ sessST[1] = "active"
    /\ cbs # <<>>
    /\ posted[1] = 0
    /\ ticks[1] = idleTicks[1]

\* ------------------------------------------------------------------------
\* Claims about the EC data at the end of a run (checked under SpecEC)
\* ------------------------------------------------------------------------

\* C39: in every run in which EC is in use (every run of SpecEC is one),
\* single-bucket or multi-bucket, globalRebFini cleans up the collected EC
\* data: when it returns, reb.ec holds no collected data
C39_FiniCleansEC ==
    [][\A c \in Calls :
          (call[c].pc = "fini" /\ call'[c].pc = "returned") => ~ecColl']_vars

\* ------------------------------------------------------------------------
\* Claims about the create-bucket transaction (checked under SpecTxn)
\* ------------------------------------------------------------------------

\* C40: the create-bucket transaction is atomic for the BMD: when createBucket
\* has returned an error for a bucket that did not exist, the BMD does not
\* have the bucket from it (a failed begin phase leaves the BMD unchanged and
\* is followed by the broadcast of the abort, a failed commit phase is rolled
\* back), and on every path each lock of the BMD is released exactly once
C40_CreateAtomic ==
    /\ [](/\ ~txn.panic
          /\ \A c \in Callers :
                LET k == txn.k[c]
                IN  /\ k.unlocks <= k.locks
                    /\ k.locks - k.unlocks = (IF txn.lock = c THEN 1 ELSE 0)
                    /\ k.pc = "returned" =>
                          /\ txn.lock # c
                          /\ k.locks = k.unlocks
                          /\ k.ret = "err" => txn.bmd[k.bck] # c
                          /\ k.ret = "nil" => txn.bmd[k.bck] = c)
    /\ [][\A c \in Callers :
             /\ (txn.k[c].pc = "begin" /\ txn'.k[c].pc = "abort")
                   => txn'.bmd = txn.bmd
             /\ (txn.k[c].pc = "abort" /\ txn'.k[c].pc = "returned")
                   => txn'.k[c].aborts = 1 /\ txn'.bmd = txn.bmd]_vars

\* the commit phase of the call p1 has failed after p2 had created another
\* bucket: the bucket of p1 is rolled back and that of p2 stays
C40_Witness ==
    /\ txn.k["p1"].pc = "returned"
    /\ txn.k["p1"].ret = "err"
    /\ txn.k["p1"].locks = 2
    /\ txn.k["p1"].bck = "b1"
    /\ txn.bmd = [b \in Bcks |-> IF b = "b2" THEN "p2" ELSE "none"]

============================================================================
